---- MODULE Spec2Model ----
(***************************************************************************)
(* ai-lint: the external analysis calls run_check and extract_insights of  *)
(* ai_lint/checker.py and the response recovery they apply to the reply of *)
(* `claude -p`.                                                            *)
(*                                                                         *)
(* Text is a sequence of one-character strings.  A decoded JSON value is a *)
(* tagged record; a dict keeps its pairs in insertion order with unique    *)
(* keys, as a Python dict does.                                            *)
(***************************************************************************)
EXTENDS Integers, Sequences, FiniteSets, TLC

(***************************************************************************)
(* Bounds                                                                  *)
(***************************************************************************)
\* longest reply enumerated character by character over Sigma
MaxLen == 3

(***************************************************************************)
(* Character classes                                                       *)
(***************************************************************************)
\* json.decoder.WHITESPACE: [ \t\n\r]*
JsonWS == {" ", "\t", "\n", "\r"}

\* str.strip() and the regex class \s: the str.isspace characters
PyWS == {" ", "\t", "\n", "\r", "\f"}

\* characters below 0x20, rejected inside a string by the strict scanner
ControlChars == {"\t", "\n", "\r", "\f"}

Digits == {"0", "1", "2", "3", "4", "5", "6", "7", "8", "9"}

HexDigits == Digits \cup {"a", "b", "c", "d", "e", "f", "A", "B", "C", "D", "E", "F"}

DigitVal(c) ==
  CASE c = "0" -> 0 [] c = "1" -> 1 [] c = "2" -> 2 [] c = "3" -> 3
    [] c = "4" -> 4 [] c = "5" -> 5 [] c = "6" -> 6 [] c = "7" -> 7
    [] c = "8" -> 8 [] c = "9" -> 9

(***************************************************************************)
(* Decoded JSON values                                                     *)
(***************************************************************************)
JNull == [t |-> "null"]
JBool(b) == [t |-> "bool", b |-> b]
JInt(n) == [t |-> "int", n |-> n]
JFloat(lit) == [t |-> "float", lit |-> lit]
JStr(s) == [t |-> "str", s |-> s]
JArr(items) == [t |-> "arr", items |-> items]
JObj(kv) == [t |-> "obj", kv |-> kv]

\* isinstance(v, dict)
IsDict(v) == v.t = "obj"

\* isinstance(v, str)
IsStr(v) == v.t = "str"

\* key in d
HasKey(d, k) == \E i \in 1..Len(d.kv) : d.kv[i][1] = k

\* d[key], for a key that is present
GetKey(d, k) == d.kv[CHOOSE i \in 1..Len(d.kv) : d.kv[i][1] = k][2]

\* d[key] = value: a present key keeps its position and takes the new value
DictSet(kv, k, v) ==
  IF \E i \in 1..Len(kv) : kv[i][1] = k
  THEN [i \in 1..Len(kv) |-> IF kv[i][1] = k THEN <<k, v>> ELSE kv[i]]
  ELSE Append(kv, <<k, v>>)

(***************************************************************************)
(* Text helpers                                                            *)
(***************************************************************************)
\* s.startswith(p, i-1)
StartsAt(s, i, p) ==
  /\ i + Len(p) - 1 <= Len(s)
  /\ \A k \in 1..Len(p) : s[i + k - 1] = p[k]

\* needle in haystack
Contains(hay, needle) ==
  \E i \in 1..(Len(hay) + 1) : StartsAt(hay, i, needle)

\* first position at or after i holding a character outside ws (Len(s)+1 if none)
SkipWS(s, i, ws) ==
  IF \E j \in i..Len(s) : s[j] \notin ws
  THEN CHOOSE j \in i..Len(s) : s[j] \notin ws /\ \A k \in i..(j - 1) : s[k] \in ws
  ELSE IF i > Len(s) + 1 THEN i ELSE Len(s) + 1

\* str.strip()
Strip(s) ==
  IF \A j \in 1..Len(s) : s[j] \in PyWS
  THEN <<>>
  ELSE LET a == CHOOSE j \in 1..Len(s) :
                  s[j] \notin PyWS /\ \A k \in 1..(j - 1) : s[k] \in PyWS
           b == CHOOSE j \in 1..Len(s) :
                  s[j] \notin PyWS /\ \A k \in (j + 1)..Len(s) : s[k] \in PyWS
       IN SubSeq(s, a, b)

(***************************************************************************)
(* json.loads                                                              *)
(***************************************************************************)
\* a scan result: ok, the decoded value and the position after it
Fail == [ok |-> FALSE, val |-> JNull, end |-> 0]
Ok(v, e) == [ok |-> TRUE, val |-> v, end |-> e]

\* json.decoder.BACKSLASH
Backslash(c) ==
  CASE c = "\"" -> "\""
    [] c = "\\" -> "\\"
    [] c = "/" -> "/"
    [] c = "b" -> "\\b"
    [] c = "f" -> "\f"
    [] c = "n" -> "\n"
    [] c = "r" -> "\r"
    [] c = "t" -> "\t"

BackslashKeys == {"\"", "\\", "/", "b", "f", "n", "r", "t"}

\* json.decoder.py_scanstring (strict): i is the position after the opening
\* quote.  The scanner reads left to right; a character is escaped when an
\* odd number of backslashes runs up to it.  A \uXXXX escape decodes to a
\* code point outside the modelled characters; it is kept as the character
\* "\\u".
Escaped(s, i, k) ==
  LET m == CHOOSE m \in (i - 1)..(k - 1) :
             /\ m = i - 1 \/ s[m] # "\\"
             /\ \A r \in (m + 1)..(k - 1) : s[r] = "\\"
  IN (k - 1 - m) % 2 = 1

\* the terminating quote: one that is not escaped
IsClose(s, i, k) == s[k] = "\"" /\ ~Escaped(s, i, k)

\* one of the four hex digits of a \uXXXX escape
IsHex(s, i, k) ==
  \E d \in 1..4 : k - d >= i /\ s[k - d] = "u" /\ Escaped(s, i, k - d)

\* the character at k makes the scanner raise: an invalid escape, a
\* truncated \uXXXX, or a control character (strict)
BadAt(s, i, close, k) ==
  IF Escaped(s, i, k)
  THEN IF s[k] = "u"
       THEN ~(k + 4 < close /\ \A r \in (k + 1)..(k + 4) : s[r] \in HexDigits)
       ELSE s[k] \notin BackslashKeys
  ELSE s[k] \in ControlChars

\* the character the scanner appends for position k
CharAt(s, i, k) ==
  IF Escaped(s, i, k)
  THEN IF s[k] = "u" THEN "\\u" ELSE Backslash(s[k])
  ELSE s[k]

\* the decoded characters of the string that ends at the quote at close
StringChars(s, i, close) ==
  LET Kept(k) == ~IsHex(s, i, k) /\ ~(s[k] = "\\" /\ ~Escaped(s, i, k))
      kept == SelectSeq([n \in 1..(close - i) |-> i + n - 1], Kept)
  IN [n \in 1..Len(kept) |-> CharAt(s, i, kept[n])]

\* the string from i up to the terminating quote at close
StringUpTo(s, i, close) ==
  IF \E k \in i..(close - 1) : BadAt(s, i, close, k) THEN Fail
  ELSE Ok(JStr(StringChars(s, i, close)), close + 1)

ScanString(s, i) ==
  IF ~\E k \in i..Len(s) : IsClose(s, i, k) THEN Fail
  ELSE StringUpTo(s, i, CHOOSE k \in i..Len(s) :
                          IsClose(s, i, k) /\ \A r \in i..(k - 1) : ~IsClose(s, i, r))

\* end of the run of digits starting at i (i itself if there is none)
DigitsEnd(s, i) == SkipWS(s, i, Digits)

RECURSIVE DigitsToInt(_)
DigitsToInt(ds) ==
  IF ds = <<>> THEN 0
  ELSE 10 * DigitsToInt(SubSeq(ds, 1, Len(ds) - 1)) + DigitVal(ds[Len(ds)])

\* json.scanner.NUMBER_RE: (-?(?:0|[1-9][0-9]*))(\.[0-9]+)?([eE][-+]?[0-9]+)?
\* the end of the integer part that starts at d (d itself if there is none)
IntEnd(s, d) ==
  IF d > Len(s) \/ s[d] \notin Digits THEN d
  ELSE IF s[d] = "0" THEN d + 1
  ELSE DigitsEnd(s, d)

\* the end of the optional fraction that starts at e
FracEnd(s, e) ==
  IF e + 1 <= Len(s) /\ s[e] = "." /\ s[e + 1] \in Digits
  THEN DigitsEnd(s, e + 1) ELSE e

\* the end of the optional exponent that starts at f
ExpEnd(s, f) ==
  LET sign == IF f + 1 <= Len(s) /\ s[f + 1] \in {"-", "+"} THEN f + 2 ELSE f + 1
  IN IF f <= Len(s) /\ s[f] \in {"e", "E"} /\ sign <= Len(s) /\ s[sign] \in Digits
     THEN DigitsEnd(s, sign) ELSE f

\* the number matched from i: its digits start at d, its integer part ends
\* at intEnd and the whole match at expEnd; int for an integer literal, float
\* otherwise
NumberValue(s, i, d, intEnd, expEnd) ==
  IF intEnd = d THEN Fail
  ELSE IF expEnd = intEnd
  THEN Ok(JInt((IF d # i THEN -1 ELSE 1) * DigitsToInt(SubSeq(s, d, intEnd - 1))),
          intEnd)
  ELSE Ok(JFloat(SubSeq(s, i, expEnd - 1)), expEnd)

NumberParts(s, i, d, intEnd) ==
  NumberValue(s, i, d, intEnd, ExpEnd(s, FracEnd(s, intEnd)))

NumberFrom(s, i, d) == NumberParts(s, i, d, IntEnd(s, d))

ScanNumber(s, i) ==
  NumberFrom(s, i, IF i <= Len(s) /\ s[i] = "-" THEN i + 1 ELSE i)

\* json.scanner.py_make_scanner._scan_once, json.decoder.JSONObject and
\* json.decoder.JSONArray
RECURSIVE ScanOnce(_, _), ObjMembers(_, _, _), ObjPair(_, _, _),
          ObjRest(_, _, _, _), ArrItems(_, _, _), ArrRest(_, _, _)
ScanOnce(s, i) ==
  IF i > Len(s) THEN Fail
  ELSE LET c == s[i] IN
    IF c = "\"" THEN ScanString(s, i + 1)
    ELSE IF c = "{" THEN
      LET j == SkipWS(s, i + 1, JsonWS) IN
        IF j > Len(s) THEN Fail
        ELSE IF s[j] = "}" THEN Ok(JObj(<<>>), j + 1)
        ELSE IF s[j] = "\"" THEN ObjMembers(s, j + 1, <<>>)
        ELSE Fail
    ELSE IF c = "[" THEN
      LET j == SkipWS(s, i + 1, JsonWS) IN
        IF j > Len(s) THEN Fail
        ELSE IF s[j] = "]" THEN Ok(JArr(<<>>), j + 1)
        ELSE ArrItems(s, j, <<>>)
    ELSE IF StartsAt(s, i, <<"n", "u", "l", "l">>) THEN Ok(JNull, i + 4)
    ELSE IF StartsAt(s, i, <<"t", "r", "u", "e">>) THEN Ok(JBool(TRUE), i + 4)
    ELSE IF StartsAt(s, i, <<"f", "a", "l", "s", "e">>) THEN Ok(JBool(FALSE), i + 5)
    ELSE ScanNumber(s, i)

\* i is the position after the opening quote of a key
ObjMembers(s, i, acc) == ObjPair(s, acc, ScanString(s, i))

\* the key has been scanned: the colon and the value follow
ObjPair(s, acc, key) ==
  IF ~key.ok THEN Fail
  ELSE LET colon == SkipWS(s, key.end, JsonWS) IN
    IF colon > Len(s) \/ s[colon] # ":" THEN Fail
    ELSE ObjRest(s, acc, key.val.s, ScanOnce(s, SkipWS(s, colon + 1, JsonWS)))

\* the value of key k has been scanned: the pair is stored, and the closing
\* brace or a comma and the next key follow
ObjRest(s, acc, k, value) ==
  IF ~value.ok THEN Fail
  ELSE LET next == SkipWS(s, value.end, JsonWS) IN
    IF next > Len(s) THEN Fail
    ELSE IF s[next] = "}" THEN Ok(JObj(DictSet(acc, k, value.val)), next + 1)
    ELSE IF s[next] # "," THEN Fail
    ELSE LET q == SkipWS(s, next + 1, JsonWS) IN
      IF q > Len(s) \/ s[q] # "\"" THEN Fail
      ELSE ObjMembers(s, q + 1, DictSet(acc, k, value.val))

\* i is the position of the next item
ArrItems(s, i, acc) == ArrRest(s, acc, ScanOnce(s, i))

\* an item has been scanned: it is appended, and the closing bracket or a
\* comma and the next item follow
ArrRest(s, acc, value) ==
  IF ~value.ok THEN Fail
  ELSE LET next == SkipWS(s, value.end, JsonWS) IN
    IF next > Len(s) THEN Fail
    ELSE IF s[next] = "]" THEN Ok(JArr(Append(acc, value.val)), next + 1)
    ELSE IF s[next] # "," THEN Fail
    ELSE ArrItems(s, SkipWS(s, next + 1, JsonWS), Append(acc, value.val))

\* JSONDecoder.raw_decode from the first character that is not whitespace
RawDecode(s) == ScanOnce(s, SkipWS(s, 1, JsonWS))

\* JSONDecoder.decode: nothing but whitespace may follow the value r
Decode(s, r) ==
  IF ~r.ok THEN Fail
  ELSE IF SkipWS(s, r.end, JsonWS) # Len(s) + 1 THEN Fail
  ELSE r

\* json.loads(s): ok = FALSE stands for json.JSONDecodeError
Loads(s) == Decode(s, RawDecode(s))

(***************************************************************************)
(* json.dumps, which writes the replies the tests feed to run_check        *)
(***************************************************************************)
RECURSIVE IntToDigits(_)
IntToDigits(n) ==
  LET d == CHOOSE c \in Digits : DigitVal(c) = n % 10 IN
    IF n < 10 THEN <<d>> ELSE Append(IntToDigits(n \div 10), d)

\* json.encoder.ESCAPE_DCT (ensure_ascii)
EscapeChar(c) ==
  CASE c = "\"" -> <<"\\", "\"">>
    [] c = "\\" -> <<"\\", "\\">>
    [] c = "\n" -> <<"\\", "n">>
    [] c = "\r" -> <<"\\", "r">>
    [] c = "\t" -> <<"\\", "t">>
    [] c = "\f" -> <<"\\", "f">>
    [] OTHER -> <<c>>

RECURSIVE EscapeText(_)
EscapeText(s) ==
  IF s = <<>> THEN <<>>
  ELSE IF Len(s) = 1 THEN EscapeChar(s[1])
  ELSE LET h == Len(s) \div 2 IN
         EscapeText(SubSeq(s, 1, h)) \o EscapeText(SubSeq(s, h + 1, Len(s)))

\* json.encoder.py_encode_basestring_ascii
EncodeStr(s) == <<"\"">> \o EscapeText(s) \o <<"\"">>

\* the separators of a style: "compact" is separators=(",", ":"), "default"
\* is json.dumps(X), "indent" is json.dumps(X, indent=0)
ItemSep(style) ==
  CASE style = "compact" -> <<",">>
    [] style = "default" -> <<",", " ">>
    [] style = "indent" -> <<",", "\n">>
KeySep(style) == IF style = "compact" THEN <<":">> ELSE <<":", " ">>
Newline(style) == IF style = "indent" THEN <<"\n">> ELSE <<>>

RECURSIVE Dumps(_, _), DumpItems(_, _), DumpPairs(_, _)
Dumps(v, style) ==
  CASE v.t = "null" -> <<"n", "u", "l", "l">>
    [] v.t = "bool" -> IF v.b THEN <<"t", "r", "u", "e">>
                       ELSE <<"f", "a", "l", "s", "e">>
    [] v.t = "int" -> IF v.n < 0 THEN <<"-">> \o IntToDigits(-v.n)
                      ELSE IntToDigits(v.n)
    [] v.t = "float" -> v.lit
    [] v.t = "str" -> EncodeStr(v.s)
    [] v.t = "arr" -> IF v.items = <<>> THEN <<"[", "]">>
                      ELSE <<"[">> \o Newline(style) \o DumpItems(v.items, style)
                           \o Newline(style) \o <<"]">>
    [] v.t = "obj" -> IF v.kv = <<>> THEN <<"{", "}">>
                      ELSE <<"{">> \o Newline(style) \o DumpPairs(v.kv, style)
                           \o Newline(style) \o <<"}">>

DumpItems(items, style) ==
  IF Len(items) = 1 THEN Dumps(items[1], style)
  ELSE Dumps(items[1], style) \o ItemSep(style) \o DumpItems(Tail(items), style)

DumpPairs(kv, style) ==
  LET first == EncodeStr(kv[1][1]) \o KeySep(style) \o Dumps(kv[1][2], style) IN
    IF Len(kv) = 1 THEN first
    ELSE first \o ItemSep(style) \o DumpPairs(Tail(kv), style)

(***************************************************************************)
(* re.search with the fence pattern of run_check, DOTALL: three backticks,  *)
(* an optional tag json, whitespace, a newline, a lazy body, a newline,    *)
(* whitespace, three backticks                                             *)
(***************************************************************************)
\* the backtick character (a TLA+ string cannot hold one)
BT == "BACKTICK"
Backticks == <<BT, BT, BT>>
JsonTag == <<"j", "s", "o", "n">>

\* the whitespace and newline after the opening marker: from p to just before b
OpensBodyAt(s, p, b) ==
  /\ b \in (p + 1)..(Len(s) + 1)
  /\ s[b - 1] = "\n"
  /\ \A q \in p..(b - 2) : s[q] \in PyWS

\* the newline, whitespace and closing marker, starting at q
ClosesAt(s, q) ==
  /\ q <= Len(s)
  /\ s[q] = "\n"
  /\ \E j \in (q + 1)..Len(s) :
       /\ \A r \in (q + 1)..(j - 1) : s[r] \in PyWS
       /\ StartsAt(s, j, Backticks)

\* the body positions b after the opening marker at p from which the rest of
\* the pattern matches
Bodies(s, p) ==
  {b \in (p + 1)..(Len(s) + 1) :
     OpensBodyAt(s, p, b) /\ \E q \in b..Len(s) : ClosesAt(s, q)}

\* BodyStart with a pattern that demands the tag json
BodyStart_TagRequired(s, i) ==
  LET withTag == IF StartsAt(s, i + 3, JsonTag) THEN Bodies(s, i + 7) ELSE {}
      Max(S) == CHOOSE b \in S : \A c \in S : c <= b
  IN IF ~StartsAt(s, i, Backticks) THEN 0
     ELSE IF withTag # {} THEN Max(withTag)
     ELSE 0

\* the body position the backtracking matcher settles on for a match that
\* starts at i (0 if there is none): the tag is taken when that leads to a
\* match, the whitespace is greedy
BodyStart(s, i) ==
  LET withTag == IF StartsAt(s, i + 3, JsonTag) THEN Bodies(s, i + 7) ELSE {}
      noTag == Bodies(s, i + 3)
      Max(S) == CHOOSE b \in S : \A c \in S : c <= b
  IN IF ~StartsAt(s, i, Backticks) THEN 0
     ELSE IF withTag # {} THEN Max(withTag)
     ELSE IF noTag # {} THEN Max(noTag)
     ELSE 0

\* fence_match: found, and group(1), the shortest body (the body is lazy) of the
\* leftmost match
FenceSearch(s) ==
  IF \E i \in 1..Len(s) : BodyStart(s, i) # 0
  THEN LET i == CHOOSE i \in 1..Len(s) :
                  BodyStart(s, i) # 0 /\ \A k \in 1..(i - 1) : BodyStart(s, k) = 0
           b == BodyStart(s, i)
           q == CHOOSE q \in b..Len(s) :
                  ClosesAt(s, q) /\ \A k \in b..(q - 1) : ~ClosesAt(s, k)
       IN [found |-> TRUE, group |-> SubSeq(s, b, q - 1)]
  ELSE [found |-> FALSE, group |-> <<>>]

(***************************************************************************)
(* _validate_insights                                                      *)
(***************************************************************************)
ResultKey == <<"r", "e", "s", "u", "l", "t">>
WhatWentWell == <<"w", "h", "a", "t", "_", "w", "e", "n", "t", "_", "w", "e", "l", "l">>
WhatToImprove == <<"w", "h", "a", "t", "_", "t", "o", "_", "i", "m", "p", "r", "o", "v", "e">>
Notable == <<"n", "o", "t", "a", "b", "l", "e">>
PatternKey == <<"p", "a", "t", "t", "e", "r", "n">>
ObservationKey == <<"o", "b", "s", "e", "r", "v", "a", "t", "i", "o", "n">>
EvidenceKey == <<"e", "v", "i", "d", "e", "n", "c", "e">>

\* iterating a decoded value with for: a list gives its items, a str its
\* characters, a dict its keys; any other value raises TypeError
Iterable(v) == v.t \in {"arr", "str", "obj"}
IterItems(v) ==
  CASE v.t = "arr" -> v.items
    [] v.t = "str" -> [i \in 1..Len(v.s) |-> JStr(<<v.s[i]>>)]
    [] v.t = "obj" -> [i \in 1..Len(v.kv) |-> JStr(v.kv[i][1])]

\* raw.get(key, [])
GetOrEmpty(d, k) == IF HasKey(d, k) THEN GetKey(d, k) ELSE JArr(<<>>)

\* KeepItems with the append left out
KeepItems_NoneKept(items, k1, k2) == <<>>

\* KeepItems leaving the loop at the first item that fails the test
KeepItems_StopAtInvalid(items, k1, k2) ==
  LET Valid(item) == IsDict(item) /\ HasKey(item, k1) /\ HasKey(item, k2)
  IN IF \A i \in 1..Len(items) : Valid(items[i]) THEN items
     ELSE SubSeq(items, 1,
                 (CHOOSE i \in 1..Len(items) :
                    ~Valid(items[i]) /\ \A j \in 1..(i - 1) : Valid(items[j])) - 1)

\* the items of one slot that pass its isinstance/in test
KeepItems(items, k1, k2) ==
  LET Valid(item) == IsDict(item) /\ HasKey(item, k1) /\ HasKey(item, k2)
  IN SelectSeq(items, Valid)

EmptyReport ==
  JObj(<< <<WhatWentWell, JArr(<<>>)>>, <<WhatToImprove, JArr(<<>>)>>,
          <<Notable, JArr(<<>>)>> >>)

\* ValidateInsights filling the slots of a copy of raw instead of a fresh
\* result
ValidateInsights_CopyOfInput(raw) ==
  IF ~IsDict(raw) THEN [ok |-> TRUE, val |-> EmptyReport]
  ELSE LET well == GetOrEmpty(raw, WhatWentWell)
           improve == GetOrEmpty(raw, WhatToImprove)
           notable == GetOrEmpty(raw, Notable)
       IN IF ~Iterable(well) \/ ~Iterable(improve) \/ ~Iterable(notable)
          THEN [ok |-> FALSE, val |-> JNull]
          ELSE [ok |-> TRUE,
                val |-> JObj(
                  DictSet(DictSet(DictSet(raw.kv,
                    WhatWentWell,
                    JArr(KeepItems(IterItems(well), PatternKey, EvidenceKey))),
                    WhatToImprove,
                    JArr(KeepItems(IterItems(improve), PatternKey, EvidenceKey))),
                    Notable,
                    JArr(KeepItems(IterItems(notable), ObservationKey, EvidenceKey))))]

\* ok = FALSE stands for the TypeError of a for loop over a non-iterable
ValidateInsights(raw) ==
  IF ~IsDict(raw) THEN [ok |-> TRUE, val |-> EmptyReport]
  ELSE LET well == GetOrEmpty(raw, WhatWentWell)
           improve == GetOrEmpty(raw, WhatToImprove)
           notable == GetOrEmpty(raw, Notable)
       IN IF ~Iterable(well) \/ ~Iterable(improve) \/ ~Iterable(notable)
          THEN [ok |-> FALSE, val |-> JNull]
          ELSE [ok |-> TRUE,
                val |-> JObj(<<
                  <<WhatWentWell,
                    JArr(KeepItems(IterItems(well), PatternKey, EvidenceKey))>>,
                  <<WhatToImprove,
                    JArr(KeepItems(IterItems(improve), PatternKey, EvidenceKey))>>,
                  <<Notable,
                    JArr(KeepItems(IterItems(notable), ObservationKey, EvidenceKey))>> >>)]

(***************************************************************************)
(* Replies of the external process                                         *)
(***************************************************************************)
\* the characters of the replies enumerated exhaustively
Sigma == {"{", "}", "\"", "a", ":", "1"}

RECURSIVE TextsUpTo(_)
TextsUpTo(n) ==
  IF n = 0 THEN {<<>>}
  ELSE LET shorter == TextsUpTo(n - 1) IN
         shorter \cup {Append(t, c) : t \in {u \in shorter : Len(u) = n - 1}, c \in Sigma}

ShortTexts == TextsUpTo(MaxLen)

\* a string value that itself holds a fenced block
FencedString == JStr(Backticks \o <<"\n", "1", "\n">> \o Backticks)

\* a list of notable items, the first valid and the second not
NotableItems ==
  JArr(<< JObj(<< <<ObservationKey, JInt(1)>>, <<EvidenceKey, JInt(1)>> >>),
          JObj(<< <<ObservationKey, JInt(1)>> >>) >>)

\* the JSON objects X the replies carry
Objects ==
  { JObj(<<>>),
    JObj(<< <<<<"a">>, JInt(1)>> >>),
    JObj(<< <<<<"a">>, JNull>> >>),
    JObj(<< <<<<"a">>, JStr(<<"\"", "\\", "\n">>)>> >>),
    JObj(<< <<<<"a">>, FencedString>> >>),
    JObj(<< <<<<"a">>, JArr(<<JInt(1), JStr(<<"a">>)>>)>> >>),
    JObj(<< <<<<"a">>, JObj(<< <<ResultKey, JInt(1)>> >>)>> >>),
    JObj(<< <<ResultKey, JInt(1)>> >>),
    JObj(<< <<ResultKey, JNull>> >>),
    JObj(<< <<ResultKey, JArr(<<>>)>> >>),
    JObj(<< <<ResultKey, JStr(<<"a">>)>> >>),
    JObj(<< <<ResultKey, JStr(<<"{", "}">>)>> >>),
    JObj(<< <<<<"a">>, JStr(<<"a">>)>>, <<ResultKey, JInt(1)>> >>),
    JObj(<< <<ResultKey, JStr(<<"{", "}">>)>>, <<<<"a">>, JInt(1)>> >>),
    JObj(<< <<Notable, NotableItems>> >>),
    JObj(<< <<Notable, JStr(<<"a">>)>> >>),
    JObj(<< <<Notable, JInt(1)>> >>) }

Styles == {"compact", "default", "indent"}

\* text that is not JSON
Garbage == {<<"a">>, <<"{", "a">>}

\* prose in front of a fenced block: it holds no fence marker
Prose ==
  { <<>>, <<"a", ".", "\n", "\n">>, <<"{", "}", " ">>,
    <<BT, "a", BT, " ", "j", "s", "o", "n", "\n">> }

\* whitespace or prose in front of the fenced block inside an envelope
Leads == {<<"\n", "\n">>, <<" ", "\f">>, <<"a", ".", "\n", "\n">>}

FenceTags == {<<>>, JsonTag}

\* "```json\n" + body + "\n```"
Fenced(tag, body) == Backticks \o tag \o <<"\n">> \o body \o <<"\n">> \o Backticks

\* json.dumps({"result": text})
Envelope(text, style) == Dumps(JObj(<< <<ResultKey, JStr(text)>> >>), style)

\* the JSON texts of the objects, each with the object it encodes
ObjectTexts == {[X |-> X, text |-> Dumps(X, st)] : X \in Objects, st \in Styles}

\* the replies built from an object, by the shape of the reply
DirectReplies == {[X |-> p.X, text |-> p.text] : p \in ObjectTexts}
EnvelopeReplies ==
  {[X |-> p.X, text |-> Envelope(p.text, st)] :
     p \in ObjectTexts, st \in {"default", "indent"}}
FenceReplies ==
  {[X |-> p.X, text |-> pr \o Fenced(tag, p.text)] :
     p \in ObjectTexts, pr \in Prose, tag \in FenceTags}
EnvelopeFenceReplies ==
  {[X |-> p.X, text |-> Envelope(ld \o Fenced(tag, p.text), "default")] :
     p \in ObjectTexts, ld \in Leads, tag \in FenceTags}
EmbeddedReplies ==
  {[X |-> p.X, text |-> <<"a", ":", " ">> \o p.text \o <<" ", "a">>] :
     p \in ObjectTexts}

\* the tag json in other letter cases
OtherCaseTags == {<<"J", "S", "O", "N">>, <<"J", "s", "o", "n">>}

\* the fenced blocks that differ from Fenced in the letter case of the tag or
\* in a newline: tag in another case; no newline on either side, after the
\* opening marker only, or before the closing marker only
CaseFenceReplies ==
  {[X |-> p.X, text |-> Fenced(tag, p.text)] : p \in ObjectTexts, tag \in OtherCaseTags}
TightFenceReplies ==
  {[X |-> p.X, text |-> Backticks \o tag \o open \o p.text \o close \o Backticks] :
     p \in ObjectTexts, tag \in FenceTags,
     open \in {<<>>, <<"\n">>}, close \in {<<>>, <<"\n">>}}
    \ FenceReplies

\* replies that hold no object: garbage bare, fenced and in an envelope
GarbageReplies ==
  Garbage
    \cup {Fenced(tag, g) : tag \in FenceTags, g \in Garbage}
    \cup {Envelope(g, "default") : g \in Garbage}
    \cup {Envelope(Fenced(tag, g), "default") : tag \in FenceTags, g \in Garbage}

TextsOf(replies) == {p.text : p \in replies}

\* leading and trailing whitespace around a reply
Padded(texts) == {<<" ">> \o t \o <<"\n">> : t \in texts}

\* result.stdout
Stdouts ==
  ShortTexts \cup GarbageReplies \cup TextsOf(DirectReplies)
    \cup Padded(TextsOf(DirectReplies))
    \cup TextsOf(EnvelopeReplies) \cup TextsOf(FenceReplies)
    \cup TextsOf(EnvelopeFenceReplies) \cup TextsOf(EmbeddedReplies)
    \cup TextsOf(CaseFenceReplies) \cup TextsOf(TightFenceReplies)

\* result.stderr
Stderrs == {<<>>, <<"e", "r", "r">>}

\* the results of subprocess.run: any reply with exit status 0 and nothing on
\* stderr, and some replies, JSON among them, with each exit status and
\* each stderr
SomeStdouts ==
  {<<>>, <<"a">>, Dumps(JObj(<< <<<<"a">>, JInt(1)>> >>), "default"),
   Envelope(<<"{", "}">>, "default")}
Results ==
  {[returncode |-> 0, stdout |-> out, stderr |-> <<>>] : out \in Stdouts}
    \cup {[returncode |-> rc, stdout |-> out, stderr |-> err] :
            rc \in {0, 1, 2}, out \in SomeStdouts, err \in Stderrs}

(***************************************************************************)
(* run_check and extract_insights: one call                                *)
(***************************************************************************)
\* timeout=120 of subprocess.run
Timeout == 120

\* the transcript and the policy: short texts
Transcripts == {<<"t", "r">>}
Policies == {<<"p", "o", "l">>}

VARIABLES
  fn,           \* the function called: "run_check" or "extract_insights"
  transcript,   \* its arguments
  policy,
  claude,       \* shutil.which("claude") is not None
  pc,           \* the position in the function body
  prompt,       \* the prompt handed to the process on standard input
  invocations,  \* the number of subprocess.run calls made
  returncode,   \* result.returncode, result.stdout, result.stderr
  stdout,
  stderr,
  raw,          \* the local variable raw, the working text
  decoded,      \* the local variable verdicts / insights
  ran,          \* the steps of the function body executed so far
  printed,      \* what the call printed to sys.stderr
  outcome,      \* how the call ended: "return" or the exception raised
  retval,       \* the value returned
  errmsg        \* the message of the exception raised

\* the formatting functions of checker.py: one call of _group_by_category or
\* of format_report_markdown
VARIABLES
  fpc,              \* the position of the call: "idle", "call" or "done"
  verdicts,         \* the argument of _group_by_category
  groups,           \* the list of (category, verdicts) pairs it returns
  session_results,  \* the argument of format_report_markdown
  report            \* the lines it returns

callVars == <<fn, transcript, policy, claude, pc, prompt, invocations, returncode,
              stdout, stderr, raw, decoded, ran, printed, outcome, retval, errmsg>>
formatVars == <<fpc, verdicts, groups, session_results, report>>

\* the commands check and report of cli.py
VARIABLES
  command,        \* the command run: "check" or "report"
  last,           \* the options --last, --quiet and --no-insights of check
  quiet,
  no_insights,
  count,          \* the option --count of report
  has_policy,     \* policy_exists()
  sessions,       \* discover_sessions(), most recent first
  cpc,            \* the position in the command body
  selected,       \* the session check picked, parsed
  to_check,       \* sessions[:count]
  position,       \* the number of sessions of to_check the loop is done with
  futures,        \* verdict_future and insight_future
  check_result,   \* the local variable result
  check_insights, \* the local variable insights
  pending,        \* the exception propagating out of the try block
  calls,          \* the calls of run_check and extract_insights started
  attempted,      \* report: the session and the outcome of each run_check call
  echoed,         \* what was written to standard output and standard error
  exit_status     \* the exit status of the command

\* the functions install_hook and uninstall_hook of setup_hook.py
VARIABLES
  settings,       \* the settings file: whether it exists, and its text
  hook_op,        \* the last function called
  hook_said       \* what that call printed

cliVars == <<command, last, quiet, no_insights, count, has_policy, sessions, cpc,
             selected, to_check, position, futures, check_result, check_insights,
             pending, calls, attempted, echoed, exit_status>>
hookVars == <<settings, hook_op, hook_said>>

\* sessions.py: one call of parse_session, one call of discover_sessions
VARIABLES
  session_file,    \* the lines of the session file
  max_messages,    \* the argument max_messages
  line_no,         \* the number of lines read
  messages,        \* the local variable messages
  cwd,             \* the local variable cwd
  first_timestamp, \* the local variable first_timestamp
  spc,             \* the position of the call
  projects,        \* the *.jsonl files under the projects directory
  discovered       \* the list discover_sessions builds

\* config.py: the configuration directory and install_policy
VARIABLES
  config_dir,      \* CONFIG_DIR exists
  policy_file,     \* POLICY_FILE: whether it exists, and its content
  config_op,       \* the persona of the last install_policy call
  config_raised    \* the exception that call raised

sessVars == <<session_file, max_messages, line_no, messages, cwd, first_timestamp,
              spc, projects, discovered>>
configVars == <<config_dir, policy_file, config_op, config_raised>>

\* the local variables of the calls the pool of check runs, by future
VARIABLES locals
poolVars == <<locals>>

vars == <<callVars, formatVars, cliVars, hookVars, sessVars, configVars, poolVars>>

\* no formatting function is being called
IdleFormat ==
  /\ fpc = "idle"
  /\ verdicts = <<>>
  /\ groups = <<>>
  /\ session_results = <<>>
  /\ report = <<>>

\* no call is being made, none was made
NoOutcome ==
  [outcome |-> "none", retval |-> JNull, errmsg |-> <<>>, printed |-> <<>>]
\* no future was submitted
NoFuture == [state |-> "none", res |-> NoOutcome]
\* no session
NoSession == [label |-> <<>>, messages |-> 0]

\* no command is being run
IdleCli ==
  /\ command = "none"
  /\ last = FALSE
  /\ quiet = FALSE
  /\ no_insights = FALSE
  /\ count = 0
  /\ has_policy = FALSE
  /\ sessions = <<>>
  /\ cpc = "idle"
  /\ selected = NoSession
  /\ to_check = <<>>
  /\ position = 0
  /\ futures = [w \in {"verdict", "insight"} |-> NoFuture]
  /\ check_result = JNull
  /\ check_insights = JNull
  /\ pending = NoOutcome
  /\ calls = <<>>
  /\ attempted = <<>>
  /\ echoed = <<>>
  /\ exit_status = "none"

\* no settings file, no function of setup_hook.py called
Missing == [exists |-> FALSE, text |-> <<>>]
\* a settings file holding the text
File(text) == [exists |-> TRUE, text |-> text]
IdleHook ==
  /\ settings = Missing
  /\ hook_op = "none"
  /\ hook_said = <<>>

\* no function of sessions.py or of config.py is being called
\* no pool is running
IdlePool == locals = <<>>

IdleFiles ==
  /\ session_file = <<>>
  /\ max_messages = 0
  /\ line_no = 0
  /\ messages = <<>>
  /\ cwd = <<>>
  /\ first_timestamp = <<>>
  /\ spc = "idle"
  /\ projects = <<>>
  /\ discovered = <<>>
  /\ config_dir = FALSE
  /\ policy_file = Missing
  /\ config_op = "none"
  /\ config_raised = "none"

\* the variables a call of run_check or extract_insights leaves alone
otherThanCall == <<formatVars, cliVars, hookVars, sessVars, configVars,
                   poolVars>>

NotFoundMsg ==
  <<"Error: 'claude' CLI not found.\nInstall Claude Code: https://claude.ai/install.sh">>
TimeoutMsg == <<"claude -p timed out after 120 seconds">>
FailedMsg == <<"claude -p failed:\n">>
ParseMsg(f) ==
  IF f = "run_check"
  THEN <<"Failed to parse LLM response as JSON.\nRaw output:\n">>
  ELSE <<"Failed to parse insights response as JSON.\nRaw output:\n">>

\* the beginning of SYSTEM_PROMPT and of INSIGHT_SYSTEM_PROMPT: the first
\* sentence and the word that follows it; the rest of each text plays no part
SYSTEM_PROMPT ==
  <<"Y", "o", "u", " ", "a", "r", "e", " ", "a", " ", "c", "o", "m", "p",
    "l", "i", "a", "n", "c", "e", " ", "a", "u", "d", "i", "t", "o", "r",
    " ", "f", "o", "r", " ", "A", "I", " ", "c", "o", "d", "i", "n", "g",
    " ", "s", "e", "s", "s", "i", "o", "n", "s", ".", " ", "Y", "o", "u">>
INSIGHT_SYSTEM_PROMPT ==
  <<"Y", "o", "u", " ", "a", "r", "e", " ", "a", " ", "d", "e", "v", "e",
    "l", "o", "p", "m", "e", "n", "t", " ", "c", "o", "a", "c", "h", " ",
    "r", "e", "v", "i", "e", "w", "i", "n", "g", " ", "a", "n", " ", "A",
    "I", " ", "c", "o", "d", "i", "n", "g", " ", "s", "e", "s", "s", "i",
    "o", "n", " ", "t", "r", "a", "n", "s", "c", "r", "i", "p", "t", ".",
    " ", "Y", "o", "u", "r">>

\* the lines the f-strings put between the parts of the prompt
PolicyHeader ==
  <<"\n", "\n", "-", "-", "-", "\n", "P", "O", "L", "I", "C", "Y", ":", "\n">>
InsightPolicyHeader ==
  <<"\n", "\n", "-", "-", "-", "\n", "P", "O", "L", "I", "C", "Y", " ", "(",
    "f", "o", "r", " ", "c", "o", "n", "t", "e", "x", "t", " ", "o", "n",
    " ", "w", "h", "a", "t", " ", "t", "h", "e", " ", "t", "e", "a", "m",
    " ", "v", "a", "l", "u", "e", "s", ")", ":", "\n">>
TranscriptHeader ==
  <<"\n", "\n", "-", "-", "-", "\n", "T", "R", "A", "N", "S", "C", "R", "I",
    "P", "T", ":", "\n">>

\* the f-string that builds the prompt
BuildPrompt(f, pol, tr) ==
  IF f = "run_check"
  THEN SYSTEM_PROMPT \o PolicyHeader \o pol \o TranscriptHeader \o tr
  ELSE INSIGHT_SYSTEM_PROMPT \o InsightPolicyHeader \o pol \o TranscriptHeader \o tr

Init ==
  /\ fn \in {"run_check", "extract_insights"}
  /\ transcript \in Transcripts
  /\ policy \in Policies
  /\ claude \in BOOLEAN
  /\ pc = "start"
  /\ prompt = <<>>
  /\ invocations = 0
  /\ returncode = 0
  /\ stdout = <<>>
  /\ stderr = <<>>
  /\ raw = <<>>
  /\ decoded = JNull
  /\ ran = {}
  /\ printed = <<>>
  /\ outcome = "none"
  /\ retval = JNull
  /\ errmsg = <<>>
  /\ IdleFormat
  /\ IdleCli
  /\ IdleHook
  /\ IdleFiles
  /\ IdlePool

\* check_claude_installed() finding claude whatever shutil.which returns
CheckClaudeInstalled_AlwaysTrue == TRUE

\* check_claude_installed()
CheckClaudeInstalled == claude

\* result.returncode != 0 taken as result.returncode < 0
ExitFailed_OnlyNegative(rc) == rc < 0

\* result.returncode != 0
ExitFailed(rc) == rc # 0

\* the text the fence pattern is searched in, were it the stripped stdout
FenceSubject_Stdout == Strip(stdout)

\* the text the fence pattern is searched in: the working text raw
FenceSubject == raw

\* raise exc(msg)
Raise(exc, msg) ==
  /\ outcome' = exc
  /\ errmsg' = msg
  /\ pc' = "done"

\* if not check_claude_installed(): print the setup message and sys.exit(1);
\* otherwise build the prompt
CheckInstalled ==
  /\ pc = "start"
  /\ ran' = ran \cup {"check_installed"}
  /\ IF ~CheckClaudeInstalled
     THEN /\ printed' = NotFoundMsg
          /\ Raise("SystemExit", <<"1">>)
          /\ UNCHANGED prompt
     ELSE /\ prompt' = BuildPrompt(fn, policy, transcript)
          /\ pc' = "invoke"
          /\ UNCHANGED <<printed, outcome, errmsg>>
  /\ UNCHANGED <<fn, transcript, policy, claude, invocations, returncode, stdout,
                 stderr, raw, decoded, retval>>
  /\ UNCHANGED otherThanCall

\* Invoke calling the process again after a first timeout
Invoke_RetryOnTimeout ==
  /\ pc = "invoke"
  /\ invocations' = invocations + 1
  /\ ran' = ran \cup {"invoke"}
  /\ \/ /\ IF invocations = 0
           THEN UNCHANGED <<pc, outcome, errmsg>>
           ELSE Raise("RuntimeError", TimeoutMsg)
        /\ UNCHANGED <<returncode, stdout, stderr>>
     \/ /\ \E result \in Results :
             /\ returncode' = result.returncode
             /\ stdout' = result.stdout
             /\ stderr' = result.stderr
        /\ pc' = "returned"
        /\ UNCHANGED <<outcome, errmsg>>
  /\ UNCHANGED <<fn, transcript, policy, claude, prompt, raw, decoded, printed,
                 retval>>
  /\ UNCHANGED otherThanCall

\* subprocess.run(["claude", "-p", ...], input=prompt, timeout=120): the
\* process exceeds the timeout, or it ends with a return code and its output
Invoke ==
  /\ pc = "invoke"
  /\ invocations' = invocations + 1
  /\ ran' = ran \cup {"invoke"}
  /\ \/ /\ Raise("RuntimeError", TimeoutMsg)
        /\ UNCHANGED <<returncode, stdout, stderr>>
     \/ /\ \E result \in Results :
             /\ returncode' = result.returncode
             /\ stdout' = result.stdout
             /\ stderr' = result.stderr
        /\ pc' = "returned"
        /\ UNCHANGED <<outcome, errmsg>>
  /\ UNCHANGED <<fn, transcript, policy, claude, prompt, raw, decoded, printed,
                 retval>>
  /\ UNCHANGED otherThanCall

\* if result.returncode != 0: raise RuntimeError(f"claude -p failed:\n{result.stderr}")
CheckReturnCode ==
  /\ pc = "returned"
  /\ ran' = ran \cup {"check_returncode"}
  /\ IF ExitFailed(returncode)
     THEN Raise("RuntimeError", FailedMsg \o stderr)
     ELSE /\ pc' = "unwrap"
          /\ UNCHANGED <<outcome, errmsg>>
  /\ UNCHANGED <<fn, transcript, policy, claude, prompt, invocations, returncode,
                 stdout, stderr, raw, decoded, printed, retval>>
  /\ UNCHANGED otherThanCall

\* HasEnvelope testing for the key "results" instead of "result"
HasEnvelope_KeyTypo(text) ==
  LET wrapper == Loads(text) IN
    wrapper.ok /\ IsDict(wrapper.val) /\ HasKey(wrapper.val, ResultKey \o <<"s">>)

\* isinstance(wrapper, dict) and "result" in wrapper, for the text that
\* json.loads decodes into wrapper
HasEnvelope(text) ==
  LET wrapper == Loads(text) IN
    wrapper.ok /\ IsDict(wrapper.val) /\ HasKey(wrapper.val, ResultKey)

\* raw = result.stdout.strip(); wrapper = json.loads(raw); if it is a dict
\* with a "result" key: raw = wrapper["result"].strip(); a JSONDecodeError is
\* passed over
EnvelopeUnwrap ==
  /\ pc = "unwrap"
  /\ ran' = ran \cup {"unwrap"}
  /\ LET text == Strip(stdout) IN
       IF HasEnvelope(text)
       THEN LET result == GetKey(Loads(text).val, ResultKey) IN
              IF IsStr(result)
              THEN /\ raw' = Strip(result.s)
                   /\ pc' = "fence"
                   /\ UNCHANGED <<outcome, errmsg>>
              ELSE /\ raw' = text
                   /\ Raise("AttributeError", <<"object has no attribute 'strip'">>)
       ELSE /\ raw' = text
            /\ pc' = "fence"
            /\ UNCHANGED <<outcome, errmsg>>
  /\ UNCHANGED <<fn, transcript, policy, claude, prompt, invocations, returncode,
                 stdout, stderr, decoded, printed, retval>>
  /\ UNCHANGED otherThanCall

\* fence_match = re.search(...); if fence_match: raw = fence_match.group(1)
FenceExtract ==
  /\ pc = "fence"
  /\ ran' = ran \cup {"fence"}
  /\ LET fence_match == FenceSearch(FenceSubject) IN
       raw' = IF fence_match.found THEN fence_match.group ELSE raw
  /\ pc' = "decode"
  /\ UNCHANGED <<fn, transcript, policy, claude, prompt, invocations, returncode,
                 stdout, stderr, decoded, printed, outcome, retval, errmsg>>
  /\ UNCHANGED otherThanCall

\* verdicts = json.loads(raw), a JSONDecodeError raising the RuntimeError that
\* quotes raw; run_check returns the value, extract_insights passes it on
DirectDecode ==
  /\ pc = "decode"
  /\ ran' = ran \cup {"decode"}
  /\ LET r == Loads(raw) IN
       IF ~r.ok
       THEN /\ Raise("RuntimeError", ParseMsg(fn) \o raw)
            /\ UNCHANGED <<decoded, retval>>
       ELSE /\ decoded' = r.val
            /\ IF fn = "run_check"
               THEN /\ outcome' = "return"
                    /\ retval' = r.val
                    /\ pc' = "done"
               ELSE /\ pc' = "validate"
                    /\ UNCHANGED <<outcome, retval>>
            /\ UNCHANGED errmsg
  /\ UNCHANGED <<fn, transcript, policy, claude, prompt, invocations, returncode,
                 stdout, stderr, raw, printed>>
  /\ UNCHANGED otherThanCall

\* return _validate_insights(insights)
Validate ==
  /\ pc = "validate"
  /\ ran' = ran \cup {"validate"}
  /\ LET r == ValidateInsights(decoded) IN
       IF r.ok
       THEN /\ outcome' = "return"
            /\ retval' = r.val
            /\ pc' = "done"
            /\ UNCHANGED errmsg
       ELSE /\ Raise("TypeError", <<"object is not iterable">>)
            /\ UNCHANGED retval
  /\ UNCHANGED <<fn, transcript, policy, claude, prompt, invocations, returncode,
                 stdout, stderr, raw, decoded, printed>>
  /\ UNCHANGED otherThanCall

Next ==
  \/ CheckInstalled
  \/ Invoke
  \/ CheckReturnCode
  \/ EnvelopeUnwrap
  \/ FenceExtract
  \/ DirectDecode
  \/ Validate

Spec == Init /\ [][Next]_vars

(***************************************************************************)
(* Properties                                                              *)
(***************************************************************************)
\* the call has ended after a reply with exit status 0
DoneAfterExit0 == pc = "done" /\ "check_returncode" \in ran /\ returncode = 0

\* C1: envelope round trip.  When the process exits 0 and stdout is the JSON
\* encoding of {"result": <JSON text of X>}, run_check returns X.
EnvelopeRoundTrip ==
  (DoneAfterExit0 /\ fn = "run_check") =>
    \A p \in EnvelopeReplies :
      stdout = p.text => outcome = "return" /\ retval = p.X

EnvelopeRoundTripWitness ==
  /\ DoneAfterExit0 /\ fn = "run_check" /\ outcome = "return"
  /\ retval = JObj(<< <<ResultKey, JStr(<<"{", "}">>)>>, <<<<"a">>, JInt(1)>> >>)
  /\ \E p \in EnvelopeReplies : stdout = p.text /\ p.X = retval

\* C2: direct decode.  When the process exits 0 and stdout is exactly the
\* JSON text of an object X, whatever its keys, run_check returns X.
DirectDecodeAnyObject ==
  (DoneAfterExit0 /\ fn = "run_check") =>
    \A p \in DirectReplies :
      stdout = p.text => outcome = "return" /\ retval = p.X

FenceAfterEnvelope ==
  (DoneAfterExit0 /\ fn = "run_check") =>
    \A p \in EnvelopeFenceReplies :
      stdout = p.text => outcome = "return" /\ retval = p.X

FenceAfterEnvelopeWitness ==
  /\ DoneAfterExit0 /\ fn = "run_check" /\ outcome = "return"
  /\ retval = JObj(<< <<<<"a">>, JArr(<<JInt(1), JStr(<<"a">>)>>)>> >>)
  /\ stdout = Envelope(<<"a", ".", "\n", "\n">> \o Fenced(<<>>, Dumps(retval, "indent")),
                       "default")

\* the greedy span from the first "{" to the last "}" of a text (empty if
\* there is none)
BraceSpan(s) ==
  IF \E i \in 1..Len(s) : \E j \in (i + 1)..Len(s) : s[i] = "{" /\ s[j] = "}"
  THEN LET i == CHOOSE i \in 1..Len(s) : s[i] = "{" /\ \A k \in 1..(i - 1) : s[k] # "{"
           j == CHOOSE j \in 1..Len(s) : s[j] = "}" /\ \A k \in (j + 1)..Len(s) : s[k] # "}"
       IN SubSeq(s, i, j)
  ELSE <<>>

\* the final json.loads ran on the working text and failed
DecodeFailed == "decode" \in ran /\ ~Loads(raw).ok

\* C5: brace-scan rescue.  When the working text does not decode but its span
\* from the first "{" to the last "}" does, the call returns that value and
\* raises no parse failure.
BraceScanRescue ==
  (DoneAfterExit0 /\ DecodeFailed /\ Loads(BraceSpan(raw)).ok) =>
    /\ outcome # "RuntimeError"
    /\ fn = "run_check" => outcome = "return" /\ retval = Loads(BraceSpan(raw)).val

\* C6: the terminal failure carries the raw text.  When the recovery fails on
\* an exit-0 reply, run_check raises the RuntimeError "Failed to parse ..."
\* and its message contains the reply of the process verbatim.
FailureCarriesReply ==
  (DoneAfterExit0 /\ fn = "run_check" /\ DecodeFailed) =>
    /\ outcome = "RuntimeError"
    /\ StartsAt(errmsg, 1, ParseMsg(fn))
    /\ Contains(errmsg, stdout)

\* C7: single failure path.  For every exit-0 stdout run_check ends with a
\* decoded value or with the RuntimeError "Failed to parse ..."; no earlier
\* step raises an error of its own.
SingleFailurePath ==
  (DoneAfterExit0 /\ fn = "run_check") =>
    \/ outcome = "return"
    \/ outcome = "RuntimeError" /\ StartsAt(errmsg, 1, ParseMsg(fn))

\* C8: tool not found.  When claude cannot be located the process is never
\* invoked and the call ends in SystemExit after printing the setup message;
\* a call that located claude never ends that way, its failures being
\* RuntimeError.
ToolNotFound ==
  /\ ~claude => invocations = 0 /\ "invoke" \notin ran
  /\ (pc = "done" /\ ~claude) => outcome = "SystemExit" /\ printed = NotFoundMsg
  /\ (pc = "done" /\ claude) => outcome # "SystemExit" /\ printed = <<>>

ToolNotFoundWitness ==
  /\ pc = "done" /\ ~claude /\ fn = "extract_insights"
  /\ outcome = "SystemExit" /\ invocations = 0

\* how a call that invoked the process failed
TimedOut == pc = "done" /\ "invoke" \in ran /\ "check_returncode" \notin ran
ExitedNonZero == pc = "done" /\ "check_returncode" \in ran /\ returncode # 0
Unrecoverable == pc = "done" /\ DecodeFailed

\* C9: no retry.  The process is invoked at most once in a call, exactly once
\* when claude is located; after a timeout, a non-zero exit or an unrecoverable
\* response the call has ended with RuntimeError after that one invocation.
NoRetry ==
  /\ invocations <= 1
  /\ (pc = "done" /\ claude) => invocations = 1
  /\ (TimedOut \/ ExitedNonZero \/ Unrecoverable) =>
       outcome = "RuntimeError" /\ invocations = 1

NoRetryWitness ==
  /\ TimedOut /\ invocations = 1 /\ outcome = "RuntimeError" /\ errmsg = TimeoutMsg

\* C10: a non-zero exit is fatal whatever stdout holds.  The call raises the
\* RuntimeError whose message contains stderr, and no recovery step runs on
\* stdout.
NonZeroExitFatal ==
  ("check_returncode" \in ran /\ returncode # 0) =>
    /\ pc = "done"
    /\ outcome = "RuntimeError"
    /\ errmsg = FailedMsg \o stderr
    /\ Contains(errmsg, stderr)
    /\ ran \cap {"unwrap", "fence", "decode", "validate"} = {}
    /\ raw = <<>> /\ decoded = JNull

NonZeroExitFatalWitness ==
  /\ pc = "done" /\ fn = "run_check" /\ returncode = 2
  /\ stdout = Dumps(JObj(<< <<<<"a">>, JInt(1)>> >>), "default")
  /\ stderr = <<"e", "r", "r">>
  /\ outcome = "RuntimeError"

(***************************************************************************)
(* _validate_insights on the decoded replies of extract_insights           *)
(***************************************************************************)
\* the longest list a slot of the decoded reply holds
MaxItems == 2

\* the items of a slot: with the keys of the first two slots, with the keys
\* of the third, with all three keys, with evidence alone, and two items
\* that are not objects
SlotItems ==
  { JObj(<< <<PatternKey, JStr(<<"a">>)>>, <<EvidenceKey, JStr(<<"b">>)>> >>),
    JObj(<< <<ObservationKey, JStr(<<"a">>)>>, <<EvidenceKey, JStr(<<"b">>)>> >>),
    JObj(<< <<EvidenceKey, JInt(1)>>, <<PatternKey, JNull>>,
            <<ObservationKey, JInt(1)>> >>),
    JObj(<< <<EvidenceKey, JStr(<<"b">>)>> >>),
    JStr(PatternKey),
    JInt(1) }

RECURSIVE ListsUpTo(_, _)
ListsUpTo(items, n) ==
  IF n = 0 THEN {<<>>}
  ELSE LET shorter == ListsUpTo(items, n - 1) IN
         shorter \cup {Append(l, x) : l \in {m \in shorter : Len(m) = n - 1}, x \in items}

\* what a slot of the decoded reply holds: a list, or a value that is not a
\* list; "absent" stands for a key the reply does not have
Absent == [t |-> "absent"]
SlotValues ==
  {Absent, JNull, JInt(1), JBool(TRUE), JStr(<<"a", "b">>),
   JObj(<< <<PatternKey, JInt(1)>>, <<EvidenceKey, JInt(1)>> >>)}
    \cup {JArr(l) : l \in ListsUpTo(SlotItems, MaxItems)}
OtherSlotValues ==
  {Absent, JArr(<< JObj(<< <<EvidenceKey, JInt(1)>>, <<PatternKey, JNull>>,
                           <<ObservationKey, JInt(1)>> >>) >>)}

\* the object with the slots that are not absent, and a key that is none of
\* the three when extra holds
InsightObject(well, improve, notable, extra) ==
  JObj((IF extra THEN << <<<<"x">>, JInt(1)>> >> ELSE <<>>)
       \o (IF well = Absent THEN <<>> ELSE << <<WhatWentWell, well>> >>)
       \o (IF notable = Absent THEN <<>> ELSE << <<Notable, notable>> >>)
       \o (IF improve = Absent THEN <<>> ELSE << <<WhatToImprove, improve>> >>))

\* the decoded values handed to _validate_insights: values that are not
\* objects, and objects in which one slot holds any of SlotValues
InsightInputs ==
  {JNull, JInt(1), JBool(FALSE), JStr(WhatWentWell), JArr(<<>>),
   JArr(<< JObj(<< <<PatternKey, JInt(1)>>, <<EvidenceKey, JInt(1)>> >>) >>)}
    \cup {InsightObject(v, o1, o2, x) :
            v \in SlotValues, o1 \in OtherSlotValues, o2 \in OtherSlotValues,
            x \in BOOLEAN}
    \cup {InsightObject(o1, v, o2, FALSE) :
            v \in SlotValues, o1 \in OtherSlotValues, o2 \in OtherSlotValues}
    \cup {InsightObject(o1, o2, v, FALSE) :
            v \in SlotValues, o1 \in OtherSlotValues, o2 \in OtherSlotValues}

\* extract_insights about to return _validate_insights(insights), after the
\* reply json.dumps(X) was decoded into insights
InitValidate ==
  /\ fn = "extract_insights"
  /\ transcript \in Transcripts
  /\ policy \in Policies
  /\ claude = TRUE
  /\ pc = "validate"
  /\ prompt = BuildPrompt(fn, policy, transcript)
  /\ invocations = 1
  /\ returncode = 0
  /\ decoded \in InsightInputs
  /\ stdout = Dumps(decoded, "default")
  /\ stderr = <<>>
  /\ raw = stdout
  /\ ran = {"check_installed", "invoke", "check_returncode", "unwrap", "fence",
            "decode"}
  /\ printed = <<>>
  /\ outcome = "none"
  /\ retval = JNull
  /\ errmsg = <<>>
  /\ IdleFormat
  /\ IdleCli
  /\ IdleHook
  /\ IdleFiles
  /\ IdlePool

NextValidate == Validate

SpecValidate == InitValidate /\ [][NextValidate]_vars

\* _validate_insights has returned
Validated == pc = "done" /\ "validate" \in ran /\ outcome = "return"

\* the value of a slot of the input: the empty list for a missing key or an
\* input that is not an object
InputSlot(k) ==
  IF IsDict(decoded) /\ HasKey(decoded, k) THEN GetKey(decoded, k) ELSE JArr(<<>>)

\* C11: every value _validate_insights returns is an object with exactly the
\* keys what_went_well, what_to_improve and notable, each holding a list; a
\* key the input lacks gives an empty list, no other key of the input
\* appears, and an input that is not an object gives the all-empty report.
InsightReportShape ==
  Validated =>
    /\ IsDict(retval)
    /\ [i \in 1..Len(retval.kv) |-> retval.kv[i][1]]
         = <<WhatWentWell, WhatToImprove, Notable>>
    /\ \A i \in 1..Len(retval.kv) : retval.kv[i][2].t = "arr"
    /\ \A k \in {WhatWentWell, WhatToImprove, Notable} :
         (~IsDict(decoded) \/ ~HasKey(decoded, k)) => GetKey(retval, k) = JArr(<<>>)
    /\ ~IsDict(decoded) => retval = EmptyReport

InsightReportShapeWitness ==
  /\ Validated
  /\ IsDict(decoded) /\ HasKey(decoded, <<"x">>) /\ ~HasKey(decoded, WhatToImprove)
  /\ GetKey(retval, WhatWentWell) # JArr(<<>>)
  /\ GetKey(retval, WhatToImprove) = JArr(<<>>)

\* C12: _validate_insights returns a report for every decoded value and never
\* raises.
ValidationTotal ==
  (pc = "done" /\ "validate" \in ran) => outcome = "return"

\* the item is a keyed record with both keys of its slot
ValidItem(item, k1, k2) == IsDict(item) /\ HasKey(item, k1) /\ HasKey(item, k2)

\* out is the subsequence of in made of exactly its valid items
IsFilterOf(out, in, k1, k2) ==
  \E f \in [1..Len(out) -> 1..Len(in)] :
    /\ \A a, b \in 1..Len(out) : a < b => f[a] < f[b]
    /\ \A a \in 1..Len(out) : out[a] = in[f[a]]
    /\ {f[a] : a \in 1..Len(out)} = {i \in 1..Len(in) : ValidItem(in[i], k1, k2)}

\* C13: for each slot that holds a list, the returned list is the subsequence
\* of the input list made of the items that are objects with the slot's two
\* keys, in their original order.
InsightItemFilter ==
  Validated =>
    /\ InputSlot(WhatWentWell).t = "arr" =>
         IsFilterOf(GetKey(retval, WhatWentWell).items,
                    InputSlot(WhatWentWell).items, PatternKey, EvidenceKey)
    /\ InputSlot(WhatToImprove).t = "arr" =>
         IsFilterOf(GetKey(retval, WhatToImprove).items,
                    InputSlot(WhatToImprove).items, PatternKey, EvidenceKey)
    /\ InputSlot(Notable).t = "arr" =>
         IsFilterOf(GetKey(retval, Notable).items,
                    InputSlot(Notable).items, ObservationKey, EvidenceKey)

\* an invalid item in front of a valid one, which is kept
InsightItemFilterWitness ==
  /\ Validated
  /\ InputSlot(Notable).t = "arr"
  /\ Len(InputSlot(Notable).items) = 2
  /\ ~ValidItem(InputSlot(Notable).items[1], ObservationKey, EvidenceKey)
  /\ ValidItem(InputSlot(Notable).items[2], ObservationKey, EvidenceKey)
  /\ GetKey(retval, Notable).items = <<InputSlot(Notable).items[2]>>

(***************************************************************************)
(* _group_by_category and format_report_markdown                           *)
(***************************************************************************)
\* the longest verdict list grouped and the longest list of session results
MaxVerdicts == 3
MaxSessions == 3

CategoryKey == <<"c", "a", "t", "e", "g", "o", "r", "y">>
RuleKey == <<"r", "u", "l", "e">>
VerdictKey == <<"v", "e", "r", "d", "i", "c", "t">>
ReasoningKey == <<"r", "e", "a", "s", "o", "n", "i", "n", "g">>
VerdictsKey == <<"v", "e", "r", "d", "i", "c", "t", "s">>
SummaryKey == <<"s", "u", "m", "m", "a", "r", "y">>
General == <<"G", "e", "n", "e", "r", "a", "l">>
PASS == <<"P", "A", "S", "S">>
FAIL == <<"F", "A", "I", "L">>
SKIP == <<"S", "K", "I", "P">>

\* a verdict of the reply: an object with rule, verdict and reasoning, and
\* with a category unless cat is Absent
Verdict(cat, rule, token) ==
  JObj((IF cat = Absent THEN <<>> ELSE << <<CategoryKey, cat>> >>)
       \o << <<RuleKey, JStr(rule)>>, <<VerdictKey, JStr(token)>>,
             <<ReasoningKey, JStr(<<"w", "h", "y">>)>> >>)

\* str(value) of an f-string, for the values a category or a token holds
PyStr(v) ==
  CASE v.t = "str" -> v.s
    [] v.t = "null" -> <<"N", "o", "n", "e">>
    [] v.t = "int" -> IF v.n < 0 THEN <<"-">> \o IntToDigits(-v.n) ELSE IntToDigits(v.n)
    [] v.t = "bool" -> IF v.b THEN <<"T", "r", "u", "e">> ELSE <<"F", "a", "l", "s", "e">>

\* v.get("category", "General")
CategoryOf(v) == IF HasKey(v, CategoryKey) THEN GetKey(v, CategoryKey) ELSE JStr(General)

\* GroupAdd putting the verdict of a known category in front of its group
GroupAdd_Prepend(gs, cat, v) ==
  IF \E i \in 1..Len(gs) : gs[i][1] = cat
  THEN [i \in 1..Len(gs) |-> IF gs[i][1] = cat THEN <<cat, <<v>> \o gs[i][2]>> ELSE gs[i]]
  ELSE Append(gs, <<cat, <<v>>>>)

\* groups.setdefault(cat, []).append(v): a new category goes after the
\* categories already seen, a known one keeps its place
GroupAdd(gs, cat, v) ==
  IF \E i \in 1..Len(gs) : gs[i][1] = cat
  THEN [i \in 1..Len(gs) |-> IF gs[i][1] = cat THEN <<cat, Append(gs[i][2], v)>> ELSE gs[i]]
  ELSE Append(gs, <<cat, <<v>>>>)

\* the loop of _group_by_category over vs, from the groups gs
RECURSIVE GroupLoop(_, _)
GroupLoop(gs, vs) ==
  IF vs = <<>> THEN gs
  ELSE GroupLoop(GroupAdd(gs, CategoryOf(Head(vs)), Head(vs)), Tail(vs))

\* _group_by_category(verdicts) = list(groups.items())
GroupByCategory(vs) == GroupLoop(<<>>, vs)

\* the icons of the markdown report, named by their code points
CheckMark == <<"U+2705">>
CrossMark == <<"U+274C">>
NextTrack == <<"U+23ED", "U+FE0F">>
QuestionMark == <<"U+2753">>

\* {"PASS": ..., "FAIL": ..., "SKIP": ...}.get(v["verdict"], ...)
Icon(token) ==
  CASE token = JStr(PASS) -> CheckMark
    [] token = JStr(FAIL) -> CrossMark
    [] token = JStr(SKIP) -> NextTrack
    [] OTHER -> QuestionMark

\* sum(1 for v in verdicts if v["verdict"] == token)
RECURSIVE CountVerdicts(_, _)
CountVerdicts(vs, token) ==
  IF vs = <<>> THEN 0
  ELSE (IF GetKey(Head(vs), VerdictKey) = JStr(token) THEN 1 ELSE 0)
       + CountVerdicts(Tail(vs), token)

\* "\n".join(lines)
RECURSIVE Join(_)
Join(lines) ==
  IF lines = <<>> THEN <<>>
  ELSE IF Len(lines) = 1 THEN lines[1]
  ELSE Join(SubSeq(lines, 1, Len(lines) \div 2)) \o <<"\n">>
         \o Join(SubSeq(lines, Len(lines) \div 2 + 1, Len(lines)))

\* the two lines of one verdict
VerdictLines(v) ==
  << <<"-", " ">> \o Icon(GetKey(v, VerdictKey)) \o <<" ", "*", "*">>
       \o PyStr(GetKey(v, VerdictKey)) \o <<"*", "*", ":", " ">>
       \o PyStr(GetKey(v, RuleKey)),
     <<" ", " ", "-", " ">> \o PyStr(GetKey(v, ReasoningKey)) >>

RECURSIVE GroupVerdictLines(_)
GroupVerdictLines(vs) ==
  IF vs = <<>> THEN <<>> ELSE VerdictLines(Head(vs)) \o GroupVerdictLines(Tail(vs))

\* the lines of the groups of one session
RECURSIVE GroupLines(_)
GroupLines(gs) ==
  IF gs = <<>> THEN <<>>
  ELSE << <<"#", "#", "#", " ">> \o PyStr(gs[1][1]), <<>> >>
       \o GroupVerdictLines(gs[1][2]) \o << <<>> >> \o GroupLines(Tail(gs))

\* result.get("verdicts", []) and result.get("summary", "")
VerdictsOf(result) ==
  IF HasKey(result, VerdictsKey) THEN GetKey(result, VerdictsKey).items ELSE <<>>
SummaryOf(result) ==
  IF HasKey(result, SummaryKey) THEN GetKey(result, SummaryKey).s ELSE <<>>

\* f"**Score: {p} passed, {f_} failed, {s} skipped**" and the line of totals
Counts(p, f, k) ==
  IntToDigits(p) \o <<" ", "p", "a", "s", "s", "e", "d", ",", " ">>
    \o IntToDigits(f) \o <<" ", "f", "a", "i", "l", "e", "d", ",", " ">>
    \o IntToDigits(k) \o <<" ", "s", "k", "i", "p", "p", "e", "d">>

\* the lines of one entry of session_results
EntryLines(entry) ==
  << <<"#", "#", " ">> \o entry.session_label, <<>> >>
    \o GroupLines(GroupByCategory(VerdictsOf(entry.result)))
    \o << <<>>,
          <<"*", "*", "S", "c", "o", "r", "e", ":", " ">>
            \o Counts(CountVerdicts(VerdictsOf(entry.result), PASS),
                      CountVerdicts(VerdictsOf(entry.result), FAIL),
                      CountVerdicts(VerdictsOf(entry.result), SKIP))
            \o <<"*", "*">>,
          <<>> >>
    \o (IF SummaryOf(entry.result) # <<>>
        THEN << <<">", " ">> \o SummaryOf(entry.result), <<>> >> ELSE <<>>)
    \o << <<"-", "-", "-">>, <<>> >>

\* ReportLoop assigning the counts of the session to the totals (= for +=)
RECURSIVE ReportLoop_TotalsAssigned(_, _)
ReportLoop_TotalsAssigned(acc, entries) ==
  IF entries = <<>> THEN acc
  ELSE ReportLoop_TotalsAssigned(
         [lines |-> acc.lines \o EntryLines(Head(entries)),
          total_pass |-> CountVerdicts(VerdictsOf(Head(entries).result), PASS),
          total_fail |-> CountVerdicts(VerdictsOf(Head(entries).result), FAIL),
          total_skip |-> CountVerdicts(VerdictsOf(Head(entries).result), SKIP)],
         Tail(entries))

\* the loop of format_report_markdown over the entries: the lines and the
\* running totals
RECURSIVE ReportLoop(_, _)
ReportLoop(acc, entries) ==
  IF entries = <<>> THEN acc
  ELSE ReportLoop(
         [lines |-> acc.lines \o EntryLines(Head(entries)),
          total_pass |-> acc.total_pass
                           + CountVerdicts(VerdictsOf(Head(entries).result), PASS),
          total_fail |-> acc.total_fail
                           + CountVerdicts(VerdictsOf(Head(entries).result), FAIL),
          total_skip |-> acc.total_skip
                           + CountVerdicts(VerdictsOf(Head(entries).result), SKIP)],
         Tail(entries))

\* the lines after the loop, and the joined text
OverallLines(acc, n) ==
  << <<"#", "#", " ", "O", "v", "e", "r", "a", "l", "l">>,
     <<"-", " ", "S", "e", "s", "s", "i", "o", "n", "s", " ", "c", "h", "e", "c",
       "k", "e", "d", ":", " ">> \o IntToDigits(n),
     <<"-", " ", "T", "o", "t", "a", "l", ":", " ">>
       \o Counts(acc.total_pass, acc.total_fail, acc.total_skip),
     <<>> >>
ReportText(acc, n) == Join(acc.lines \o OverallLines(acc, n))

\* format_report_markdown(session_results)
FormatReportMarkdown(entries) ==
  ReportText(
    ReportLoop([lines |-> << <<"#", " ", "a", "i", "-", "l", "i", "n", "t", " ",
                              "C", "o", "m", "p", "l", "i", "a", "n", "c", "e",
                              " ", "R", "e", "p", "o", "r", "t">>, <<>> >>,
                total_pass |-> 0, total_fail |-> 0, total_skip |-> 0],
               entries),
    Len(entries))

\* the verdicts grouped: with and without a category, the category General
\* named, a category null, and a token that is none of PASS, FAIL, SKIP
Verdicts ==
  { Verdict(JStr(<<"B">>), <<"r", "1">>, PASS),
    Verdict(JStr(<<"A">>), <<"r", "2">>, FAIL),
    Verdict(JStr(<<"B">>), <<"r", "3">>, SKIP),
    Verdict(Absent, <<"r", "4">>, PASS),
    Verdict(JStr(General), <<"r", "5">>, <<"M", "A", "Y", "B", "E">>),
    Verdict(JNull, <<"r", "6">>, FAIL) }

\* the results of run_check the report is built from
Results3P1F1S ==
  JObj(<< <<VerdictsKey,
            JArr(<< Verdict(JStr(<<"B">>), <<"r", "1">>, PASS),
                    Verdict(JStr(<<"A">>), <<"r", "2">>, PASS),
                    Verdict(JStr(<<"B">>), <<"r", "3">>, FAIL),
                    Verdict(Absent, <<"r", "4">>, SKIP),
                    Verdict(JStr(<<"A">>), <<"r", "5">>, PASS) >>)>>,
          <<SummaryKey, JStr(<<"o", "k">>)>> >>)
CheckResults ==
  { Results3P1F1S,
    JObj(<< <<VerdictsKey,
              JArr(<< Verdict(JStr(<<"A">>), <<"r", "1">>, FAIL),
                      Verdict(JStr(<<"A">>), <<"r", "2">>, <<"M", "A", "Y", "B", "E">>),
                      Verdict(JStr(<<"A">>), <<"r", "3">>, SKIP) >>)>> >>),
    JObj(<< <<VerdictsKey, JArr(<< Verdict(Absent, <<"r", "1">>, PASS) >>)>>,
            <<SummaryKey, JStr(<<>>)>> >>),
    JObj(<< <<VerdictsKey, JArr(<<>>)>> >>),
    JObj(<< <<SummaryKey, JStr(<<"o", "k">>)>> >>) }

\* the entries cli.report appends: {"session_label": s.label, "result": result}
SessionEntries ==
  {[session_label |-> <<"s">>, result |-> r] : r \in CheckResults}

\* no call of run_check or extract_insights is being made
IdleCall ==
  /\ fn = "none"
  /\ transcript = <<>>
  /\ policy = <<>>
  /\ claude = FALSE
  /\ pc = "idle"
  /\ prompt = <<>>
  /\ invocations = 0
  /\ returncode = 0
  /\ stdout = <<>>
  /\ stderr = <<>>
  /\ raw = <<>>
  /\ decoded = JNull
  /\ ran = {}
  /\ printed = <<>>
  /\ outcome = "none"
  /\ retval = JNull
  /\ errmsg = <<>>

\* one call of _group_by_category
InitGroup ==
  /\ IdleCall
  /\ IdleCli
  /\ IdleHook
  /\ IdleFiles
  /\ IdlePool
  /\ fpc = "call"
  /\ verdicts \in ListsUpTo(Verdicts, MaxVerdicts)
  /\ groups = <<>>
  /\ session_results = <<>>
  /\ report = <<>>

\* one call of format_report_markdown
InitReport ==
  /\ IdleCall
  /\ IdleCli
  /\ IdleHook
  /\ IdleFiles
  /\ IdlePool
  /\ fpc = "call"
  /\ verdicts = <<>>
  /\ groups = <<>>
  /\ session_results \in ListsUpTo(SessionEntries, MaxSessions)
  /\ report = <<>>

\* the variables a call of a formatting function leaves alone
otherThanFormat == <<callVars, cliVars, hookVars, sessVars, configVars,
                     poolVars>>

\* groups = _group_by_category(verdicts)
CallGroupByCategory ==
  /\ fpc = "call"
  /\ groups' = GroupByCategory(verdicts)
  /\ fpc' = "done"
  /\ UNCHANGED <<verdicts, session_results, report>>
  /\ UNCHANGED otherThanFormat

\* report = format_report_markdown(session_results)
CallFormatReportMarkdown ==
  /\ fpc = "call"
  /\ report' = FormatReportMarkdown(session_results)
  /\ fpc' = "done"
  /\ UNCHANGED <<verdicts, groups, session_results>>
  /\ UNCHANGED otherThanFormat

SpecGroup == InitGroup /\ [][CallGroupByCategory]_vars
SpecReport == InitReport /\ [][CallFormatReportMarkdown]_vars


\* the category a verdict is filed under
FiledUnder(v) == IF HasKey(v, CategoryKey) THEN GetKey(v, CategoryKey) ELSE JStr(General)

\* the position of the first verdict of a category
FirstSeen(cat) ==
  CHOOSE k \in 1..Len(verdicts) :
    FiledUnder(verdicts[k]) = cat /\ \A j \in 1..(k - 1) : FiledUnder(verdicts[j]) # cat

\* the verdicts of a category, in their order in the input
VerdictsIn(cat) ==
  LET InCat(v) == FiledUnder(v) = cat IN SelectSeq(verdicts, InCat)

\* C14: _group_by_category returns one group for each category of the input,
\* in the order in which the categories first appear, each holding the
\* verdicts of its category in their original order; a verdict without a
\* category is in the group General, and every verdict is in exactly one
\* group.
GroupingFirstSeen ==
  fpc = "done" =>
    /\ {groups[i][1] : i \in 1..Len(groups)}
         = {FiledUnder(verdicts[k]) : k \in 1..Len(verdicts)}
    /\ \A i, j \in 1..Len(groups) :
         i < j => /\ groups[i][1] # groups[j][1]
                  /\ FirstSeen(groups[i][1]) < FirstSeen(groups[j][1])
    /\ \A i \in 1..Len(groups) : groups[i][2] = VerdictsIn(groups[i][1])
    /\ \A k \in 1..Len(verdicts) :
         ~HasKey(verdicts[k], CategoryKey) =>
           \E i \in 1..Len(groups) :
             /\ groups[i][1] = JStr(General)
             /\ \E j \in 1..Len(groups[i][2]) : groups[i][2][j] = verdicts[k]

\* categories B, A, B: the group B comes first and holds both its verdicts
GroupingFirstSeenWitness ==
  /\ fpc = "done"
  /\ verdicts = << Verdict(JStr(<<"B">>), <<"r", "1">>, PASS),
                   Verdict(JStr(<<"A">>), <<"r", "2">>, FAIL),
                   Verdict(JStr(<<"B">>), <<"r", "3">>, SKIP) >>
  /\ groups = << <<JStr(<<"B">>), <<verdicts[1], verdicts[3]>> >>,
                 <<JStr(<<"A">>), <<verdicts[2]>> >> >>

\* the verdicts of all sessions that carry the token, by position
WithToken(token) ==
  UNION {{<<i, j>> : j \in {k \in 1..Len(VerdictsOf(session_results[i].result)) :
                             GetKey(VerdictsOf(session_results[i].result)[k],
                                    VerdictKey) = JStr(token)}} :
           i \in 1..Len(session_results)}

EndsWith(s, suffix) ==
  Len(suffix) <= Len(s) /\ SubSeq(s, Len(s) - Len(suffix) + 1, Len(s)) = suffix

\* C15: the report of format_report_markdown ends with the number of entries
\* as 'Sessions checked' and with the numbers of PASS, FAIL and SKIP verdicts
\* of all entries as the totals, also when an entry occurs several times.
ReportTotals ==
  fpc = "done" =>
    EndsWith(report,
      <<"#", "#", " ", "O", "v", "e", "r", "a", "l", "l", "\n">>
        \o <<"-", " ", "S", "e", "s", "s", "i", "o", "n", "s", " ", "c", "h", "e",
             "c", "k", "e", "d", ":", " ">>
        \o IntToDigits(Len(session_results)) \o <<"\n">>
        \o <<"-", " ", "T", "o", "t", "a", "l", ":", " ">>
        \o IntToDigits(Cardinality(WithToken(PASS)))
        \o <<" ", "p", "a", "s", "s", "e", "d", ",", " ">>
        \o IntToDigits(Cardinality(WithToken(FAIL)))
        \o <<" ", "f", "a", "i", "l", "e", "d", ",", " ">>
        \o IntToDigits(Cardinality(WithToken(SKIP)))
        \o <<" ", "s", "k", "i", "p", "p", "e", "d", "\n">>)

\* the same result with 3 PASS, 1 FAIL, 1 SKIP in two sessions: 6, 2, 2
ReportTotalsWitness ==
  /\ fpc = "done"
  /\ session_results = << [session_label |-> <<"s">>, result |-> Results3P1F1S],
                          [session_label |-> <<"s">>, result |-> Results3P1F1S] >>
  /\ EndsWith(report,
       <<"c", "h", "e", "c", "k", "e", "d", ":", " ", "2", "\n">>
         \o <<"-", " ", "T", "o", "t", "a", "l", ":", " ", "6", " ", "p", "a", "s",
              "s", "e", "d", ",", " ", "2", " ", "f", "a", "i", "l", "e", "d", ",",
              " ", "2", " ", "s", "k", "i", "p", "p", "e", "d", "\n">>)


(***************************************************************************)
(* run_check and extract_insights as the callers in cli.py see them: the   *)
(* outcome of one call, from what shutil.which and subprocess.run gave     *)
(***************************************************************************)
\* how a call ends: by return or by the exception raised; printed is what the
\* call wrote to sys.stderr itself
Returned(value) ==
  [outcome |-> "return", retval |-> value, errmsg |-> <<>>, printed |-> <<>>]
Raised(exc, msg) ==
  [outcome |-> exc, retval |-> JNull, errmsg |-> msg, printed |-> <<>>]

\* the final json.loads of the working text and, for extract_insights,
\* _validate_insights
DecodeOutcome(f, text, r) ==
  IF ~r.ok THEN Raised("RuntimeError", ParseMsg(f) \o text)
  ELSE IF f = "run_check" THEN Returned(r.val)
  ELSE IF ValidateInsights(r.val).ok THEN Returned(ValidateInsights(r.val).val)
  ELSE Raised("TypeError", <<"object is not iterable">>)

\* the working text after the fence search
FenceOutcome(text, m) == IF m.found THEN m.group ELSE text

\* the steps after the envelope step, on the working text
RecoverOutcome(f, text) ==
  DecodeOutcome(f, FenceOutcome(text, FenceSearch(text)),
                Loads(FenceOutcome(text, FenceSearch(text))))

\* the envelope step on the stripped stdout, and the steps after it
UnwrapOutcome(f, text) ==
  IF HasEnvelope(text)
  THEN IF IsStr(GetKey(Loads(text).val, ResultKey))
       THEN RecoverOutcome(f, Strip(GetKey(Loads(text).val, ResultKey).s))
       ELSE Raised("AttributeError", <<"object has no attribute 'strip'">>)
  ELSE RecoverOutcome(f, text)

\* what subprocess.run gave: a timeout, or a completed process
TimedOutRun == [timeout |-> TRUE, returncode |-> 0, stdout |-> <<>>, stderr |-> <<>>]
Completed(rc, out, err) ==
  [timeout |-> FALSE, returncode |-> rc, stdout |-> out, stderr |-> err]

\* f(transcript, policy) when claude was located and subprocess.run gave run
RunOutcome(f, run) ==
  IF run.timeout THEN Raised("RuntimeError", TimeoutMsg)
  ELSE IF ExitFailed(run.returncode)
  THEN Raised("RuntimeError", FailedMsg \o run.stderr)
  ELSE UnwrapOutcome(f, Strip(run.stdout))

\* f(transcript, policy) when claude was not located
NotFoundOutcome ==
  [outcome |-> "SystemExit", retval |-> JNull, errmsg |-> <<"1">>,
   printed |-> NotFoundMsg]


(***************************************************************************)
(* cli.py: the command check                                               *)
(***************************************************************************)
\* the longest list of discovered sessions
MaxDiscovered == 2

\* sessions as discover_sessions and parse_session give them: a label and
\* the number of messages
SessionA == [label |-> <<"A">>, messages |-> 2]
SessionB == [label |-> <<"B">>, messages |-> 0]
SessionC == [label |-> <<"C">>, messages |-> 1]

\* what subprocess.run gives in the calls a command makes: a timeout, a
\* failed process, a result of verdicts, an insights object, text that holds
\* no JSON, an envelope whose result is a number, an object whose notable
\* is null, and a list
InsightsReply ==
  InsightObject(JArr(<< JObj(<< <<PatternKey, JStr(<<"a">>)>>,
                                <<EvidenceKey, JStr(<<"b">>)>> >>) >>),
                Absent, Absent, FALSE)
CliRuns ==
  {TimedOutRun,
   Completed(1, <<>>, <<"e", "r", "r">>),
   Completed(0, Dumps(Results3P1F1S, "default"), <<>>),
   Completed(0, Dumps(InsightsReply, "default"), <<>>),
   Completed(0, <<"a">>, <<>>),
   Completed(0, Dumps(JObj(<< <<ResultKey, JInt(1)>> >>), "default"), <<>>),
   Completed(0, Dumps(InsightObject(Absent, Absent, JNull, FALSE), "default"), <<>>),
   Completed(0, <<"[", "]">>, <<>>)}

\* the function each future runs
FunctionOf(w) == IF w = "verdict" THEN "run_check" ELSE "extract_insights"

\* skip_insights = quiet or no_insights, with quiet left out
SkipInsights_QuietIgnored(q, n) == n
\* skip_insights = quiet or no_insights
SkipInsights(q, n) == q \/ n

\* the exception classes of a call that derive from Exception; SystemExit
\* derives from BaseException only
ExceptionSubclasses ==
  {"RuntimeError", "AttributeError", "TypeError", "ClaudeNotFoundError"}

\* except (ClaudeNotFoundError, RuntimeError)
CaughtErrors == {"ClaudeNotFoundError", "RuntimeError"}

\* sys.exit(0) of a session without messages
SuccessExitStatus == 0

\* the except clause of check exiting as a session without messages does
ErrorExitStatus_Success == SuccessExitStatus
\* sys.exit(1) in the except clause of check
ErrorExitStatus == 1

\* one thing written: the stream, what it is and its content
Out(what, arg) == [stream |-> "stdout", what |-> what, arg |-> arg]
Err(what, arg) == [stream |-> "stderr", what |-> what, arg |-> arg]

\* format_verdicts(result) returns: result is a dict, its verdicts can be
\* iterated and each one is a dict with the keys verdict, rule and reasoning
VerdictFormattable(v) ==
  /\ v.t = "obj"
  /\ HasKey(v, VerdictKey)
  /\ HasKey(v, RuleKey)
  /\ HasKey(v, ReasoningKey)
VerdictsFormattable(vs) ==
  \/ vs.t = "arr" /\ \A n \in 1..Len(vs.items) : VerdictFormattable(vs.items[n])
  \/ vs.t = "str" /\ vs.s = <<>>
  \/ vs.t = "obj" /\ vs.kv = <<>>
FormatVerdictsReturns(res) ==
  /\ res.t = "obj"
  /\ HasKey(res, VerdictsKey) => VerdictsFormattable(GetKey(res, VerdictsKey))

\* if insights: a dict with keys is true, None is false
Truthy(v) ==
  CASE v.t = "null" -> FALSE
    [] v.t = "obj" -> v.kv # <<>>
    [] v.t = "arr" -> v.items # <<>>
    [] v.t = "str" -> v.s # <<>>
    [] v.t = "bool" -> v.b
    [] v.t = "int" -> v.n # 0
    [] OTHER -> TRUE

\* the command check is started with its options, a policy or none and the
\* sessions discovered
InitCheck ==
  /\ IdleCall
  /\ IdleFormat
  /\ IdleHook
  /\ IdleFiles
  /\ IdlePool
  /\ command = "check"
  /\ last \in BOOLEAN
  /\ quiet \in BOOLEAN
  /\ no_insights \in BOOLEAN
  /\ count = 0
  /\ has_policy \in BOOLEAN
  /\ sessions \in ListsUpTo({SessionA, SessionB}, MaxDiscovered)
  /\ cpc = "start"
  /\ selected = NoSession
  /\ to_check = <<>>
  /\ position = 0
  /\ futures = [w \in {"verdict", "insight"} |-> NoFuture]
  /\ check_result = JNull
  /\ check_insights = JNull
  /\ pending = NoOutcome
  /\ calls = <<>>
  /\ attempted = <<>>
  /\ echoed = <<>>
  /\ exit_status = "none"

\* the variables the command check leaves alone
otherThanCheck == <<callVars, formatVars, hookVars, sessVars, configVars,
                    poolVars, command, last, quiet, no_insights, count,
                    has_policy, sessions, to_check, position, attempted>>

\* the command ends with the exit status
Exit(status) ==
  /\ cpc' = "exited"
  /\ exit_status' = status

\* what check writes once a session with messages is picked
Announce(s) ==
  IF quiet THEN <<>>
  ELSE <<Out("parsing", s.label), Out("checking", s.messages)>>

\* if not session.messages, never taken
NoMessages_Never(session) == FALSE
\* if not session.messages
NoMessages(session) == session.messages = 0

\* check up to skip_insights: the exits without a policy, without sessions
\* and without messages, the session picked with --last or at the prompt
PickSession ==
  /\ cpc = "start"
  /\ IF ~has_policy
     THEN /\ echoed' = Append(echoed, Out("no_policy", <<>>))
          /\ Exit(1)
          /\ UNCHANGED selected
     ELSE IF sessions = <<>>
     THEN /\ echoed' = Append(echoed, Out("no_sessions", <<>>))
          /\ Exit(1)
          /\ UNCHANGED selected
     ELSE \E idx \in 1..Len(sessions) :
            /\ last => idx = 1
            /\ selected' = sessions[idx]
            /\ IF NoMessages(sessions[idx])
               THEN /\ echoed' = echoed
                         \o (IF last THEN <<>> ELSE <<Out("recent", sessions)>>)
                         \o (IF quiet THEN <<>> ELSE <<Out("parsing", sessions[idx].label)>>)
                         \o <<Out("no_messages", <<>>)>>
                    /\ Exit(SuccessExitStatus)
               ELSE /\ echoed' = echoed
                         \o (IF last THEN <<>> ELSE <<Out("recent", sessions)>>)
                         \o Announce(sessions[idx])
                    /\ cpc' = "analyze"
                    /\ UNCHANGED exit_status
  /\ UNCHANGED <<futures, check_result, check_insights, pending, calls>>
  /\ UNCHANGED otherThanCheck

\* the outcome of a call started with or without claude on the path
OutcomeOf(f, found, run) == IF found THEN RunOutcome(f, run) ELSE NotFoundOutcome

\* what a call that ended wrote to sys.stderr
PrintedBy(o) == IF o.printed = <<>> THEN <<>> ELSE <<Err("printed", o.printed)>>

\* if skip_insights: result = run_check(transcript, policy); insights = None
RunCheckAlone ==
  /\ cpc = "analyze"
  /\ SkipInsights(quiet, no_insights)
  /\ \E found \in BOOLEAN, run \in CliRuns :
       /\ calls' = Append(calls, "run_check")
       /\ echoed' = echoed \o PrintedBy(OutcomeOf("run_check", found, run))
       /\ IF OutcomeOf("run_check", found, run).outcome = "return"
          THEN /\ check_result' = OutcomeOf("run_check", found, run).retval
               /\ cpc' = "display"
               /\ UNCHANGED pending
          ELSE /\ pending' = OutcomeOf("run_check", found, run)
               /\ cpc' = "except"
               /\ UNCHANGED check_result
  /\ UNCHANGED <<selected, futures, check_insights, exit_status>>
  /\ UNCHANGED otherThanCheck

\* with ThreadPoolExecutor(max_workers=2) as pool: the two pool.submit
Submit ==
  /\ cpc = "analyze"
  /\ ~SkipInsights(quiet, no_insights)
  /\ futures' = [w \in {"verdict", "insight"} |-> [state |-> "pending", res |-> NoOutcome]]
  /\ cpc' = "verdict_result"
  /\ UNCHANGED <<selected, check_result, check_insights, pending, calls, echoed,
                 exit_status>>
  /\ UNCHANGED otherThanCheck

\* a worker of the pool starts the function of a future: without claude the
\* call prints and ends at once, with claude it starts the process
WorkerStart(w) ==
  /\ futures[w].state = "pending"
  /\ calls' = Append(calls, FunctionOf(w))
  /\ \E found \in BOOLEAN :
       IF found
       THEN /\ futures' = [futures EXCEPT ![w].state = "running"]
            /\ UNCHANGED echoed
       ELSE /\ futures' = [futures EXCEPT ![w] = [state |-> "done", res |-> NotFoundOutcome]]
            /\ echoed' = echoed \o PrintedBy(NotFoundOutcome)
  /\ UNCHANGED <<cpc, selected, check_result, check_insights, pending, exit_status>>
  /\ UNCHANGED otherThanCheck

\* the process of a call ends and the call with it: the future holds the
\* value returned or the exception raised
WorkerFinish(w) ==
  /\ futures[w].state = "running"
  /\ \E run \in CliRuns :
       futures' = [futures EXCEPT ![w] = [state |-> "done",
                                          res |-> RunOutcome(FunctionOf(w), run)]]
  /\ UNCHANGED <<cpc, selected, check_result, check_insights, pending, calls,
                 echoed, exit_status>>
  /\ UNCHANGED otherThanCheck

\* result = verdict_future.result()
VerdictResult ==
  /\ cpc = "verdict_result"
  /\ futures["verdict"].state = "done"
  /\ IF futures["verdict"].res.outcome = "return"
     THEN /\ check_result' = futures["verdict"].res.retval
          /\ cpc' = "insight_result"
          /\ UNCHANGED pending
     ELSE /\ pending' = futures["verdict"].res
          /\ cpc' = "shutdown"
          /\ UNCHANGED check_result
  /\ UNCHANGED <<selected, futures, check_insights, calls, echoed, exit_status>>
  /\ UNCHANGED otherThanCheck

\* try: insights = insight_future.result() except Exception: insights = None
InsightResult ==
  /\ cpc = "insight_result"
  /\ futures["insight"].state = "done"
  /\ IF futures["insight"].res.outcome = "return"
     THEN /\ check_insights' = futures["insight"].res.retval
          /\ UNCHANGED pending
     ELSE IF futures["insight"].res.outcome \in ExceptionSubclasses
     THEN /\ check_insights' = JNull
          /\ UNCHANGED pending
     ELSE /\ pending' = futures["insight"].res
          /\ UNCHANGED check_insights
  /\ cpc' = "shutdown"
  /\ UNCHANGED <<selected, futures, check_result, calls, echoed, exit_status>>
  /\ UNCHANGED otherThanCheck

\* the end of the with block of the pool: shutdown(wait=True) returns when
\* both futures are done
PoolShutdown ==
  /\ cpc = "shutdown"
  /\ \A w \in {"verdict", "insight"} : futures[w].state = "done"
  /\ cpc' = IF pending = NoOutcome THEN "display" ELSE "except"
  /\ UNCHANGED <<selected, futures, check_result, check_insights, pending, calls,
                 echoed, exit_status>>
  /\ UNCHANGED otherThanCheck

\* an exception leaves the try block: except (ClaudeNotFoundError,
\* RuntimeError) writes the error and exits; SystemExit ends the command with
\* its code; any other exception ends it with a traceback
CheckExcept ==
  /\ cpc = "except"
  /\ IF pending.outcome \in CaughtErrors
     THEN /\ echoed' = Append(echoed, Err("error", pending.errmsg))
          /\ Exit(ErrorExitStatus)
     ELSE IF pending.outcome = "SystemExit"
     THEN /\ Exit(1)
          /\ UNCHANGED echoed
     ELSE /\ echoed' = Append(echoed, Err("traceback", <<pending.outcome>>))
          /\ Exit(1)
  /\ UNCHANGED <<selected, futures, check_result, check_insights, pending, calls>>
  /\ UNCHANGED otherThanCheck

\* click.echo(format_verdicts(result)); if insights:
\* click.echo(format_insights(insights))
Display ==
  /\ cpc = "display"
  /\ IF FormatVerdictsReturns(check_result)
     THEN /\ echoed' = echoed \o <<Out("verdicts", check_result)>>
               \o (IF Truthy(check_insights) THEN <<Out("insights", check_insights)>>
                   ELSE <<>>)
          /\ Exit(0)
     ELSE /\ echoed' = Append(echoed, Err("traceback", <<"AttributeError">>))
          /\ Exit(1)
  /\ UNCHANGED <<selected, futures, check_result, check_insights, pending, calls>>
  /\ UNCHANGED otherThanCheck

NextCheck ==
  \/ PickSession
  \/ RunCheckAlone
  \/ Submit
  \/ \E w \in {"verdict", "insight"} : WorkerStart(w)
  \/ \E w \in {"verdict", "insight"} : WorkerFinish(w)
  \/ VerdictResult
  \/ InsightResult
  \/ PoolShutdown
  \/ CheckExcept
  \/ Display

SpecCheck == InitCheck /\ [][NextCheck]_vars


(***************************************************************************)
(* Properties of the command check                                         *)
(***************************************************************************)
\* a section of the given kind was written to standard output
Shown(what) ==
  \E k \in 1..Len(echoed) : echoed[k].stream = "stdout" /\ echoed[k].what = what

\* the functions called so far
Called == {calls[k] : k \in 1..Len(calls)}

\* the command ran its two calls in the pool and ended
EndedAfterPool ==
  /\ command = "check"
  /\ cpc = "exited"
  /\ \A w \in {"verdict", "insight"} : futures[w].state = "done"

\* C16: in check with insights enabled, whenever the verdict call succeeds
\* and the insight call fails for any reason, the verdicts are displayed, no
\* insights section is displayed and the exit status is 0.
InsightFailureSwallowed ==
  (/\ EndedAfterPool
   /\ futures["verdict"].res.outcome = "return"
   /\ futures["insight"].res.outcome # "return")
    => /\ Shown("verdicts")
       /\ ~Shown("insights")
       /\ exit_status = 0

\* the verdict call of the command ended with an exception
VerdictFailed ==
  /\ command = "check"
  /\ "run_check" \in Called
  /\ IF quiet \/ no_insights
     THEN pending # NoOutcome
     ELSE /\ futures["verdict"].state = "done"
          /\ futures["verdict"].res.outcome # "return"

\* the exception of the verdict call
VerdictError ==
  IF quiet \/ no_insights THEN pending ELSE futures["verdict"].res

\* standard error holds the message of the exception, the text the call
\* printed before SystemExit, or the traceback of the exception
ErrorPrinted(o) ==
  \E k \in 1..Len(echoed) :
    /\ echoed[k].stream = "stderr"
    /\ \/ echoed[k].what = "error" /\ echoed[k].arg = o.errmsg
       \/ echoed[k].what = "printed" /\ echoed[k].arg = o.printed
       \/ echoed[k].what = "traceback" /\ echoed[k].arg = <<o.outcome>>

\* C17: in check, whenever the verdict call fails, whatever the outcome of
\* the insight call, the command prints the error, displays neither verdicts
\* nor insights and exits with a non-zero status.
VerdictFailureAborts ==
  (cpc = "exited" /\ VerdictFailed)
    => /\ ErrorPrinted(VerdictError)
       /\ ~Shown("verdicts")
       /\ ~Shown("insights")
       /\ exit_status # 0

\* the verdict call raised RuntimeError while the insight call returned: the
\* command wrote that error and exited with status 1
VerdictFailureAbortsWitness ==
  /\ EndedAfterPool
  /\ futures["verdict"].res.outcome = "RuntimeError"
  /\ futures["insight"].res.outcome = "return"
  /\ pending = futures["verdict"].res
  /\ Err("error", TimeoutMsg) = echoed[Len(echoed)]
  /\ exit_status = 1

\* C19 as stated: when check runs with --quiet or with --no-insights,
\* extract_insights is never called, exactly one call of run_check is made
\* and no insights section is printed.
InsightsSkippedOneCall ==
  (command = "check" /\ cpc = "exited" /\ (quiet \/ no_insights))
    => /\ "extract_insights" \notin Called
       /\ calls = <<"run_check">>
       /\ ~Shown("insights")

\* check got past its three early exits: a policy, a session, messages
ReachedAnalysis == has_policy /\ selected.messages > 0

\* C19: when check runs with --quiet or with --no-insights, extract_insights
\* is never called and no insights section is printed; run_check is called at
\* most once, and exactly once when the command ends after it selected a
\* session with messages under a policy.
InsightsSkipped ==
  (command = "check" /\ (quiet \/ no_insights))
    => /\ "extract_insights" \notin Called
       /\ ~Shown("insights")
       /\ Len(calls) <= 1
       /\ (cpc = "exited" /\ ReachedAnalysis) => calls = <<"run_check">>

\* check --quiet alone, and check --no-insights alone, ended with the verdicts
\* displayed after one call of run_check
InsightsSkippedWitness ==
  /\ command = "check"
  /\ cpc = "exited"
  /\ quiet # no_insights
  /\ calls = <<"run_check">>
  /\ Shown("verdicts")
  /\ exit_status = 0


(***************************************************************************)
(* cli.py: the command report                                              *)
(***************************************************************************)
\* the largest --count given
MaxCount == 3

\* count_verdicts(verdicts): the numbers of PASS, FAIL and SKIP verdicts
TallyVerdicts(vs) ==
  [pass |-> CountVerdicts(vs, PASS), fail |-> CountVerdicts(vs, FAIL),
   skip |-> CountVerdicts(vs, SKIP)]

\* sessions[:count] for count >= 0
FirstSessions(ss, n) == SubSeq(ss, 1, IF n < Len(ss) THEN n ELSE Len(ss))

\* the command report is started with its count, a policy or none and the
\* sessions discovered
InitBatch ==
  /\ IdleCall
  /\ IdleFormat
  /\ IdleHook
  /\ IdleFiles
  /\ IdlePool
  /\ command = "report"
  /\ last = FALSE
  /\ quiet = FALSE
  /\ no_insights = FALSE
  /\ count \in 0..MaxCount
  /\ has_policy \in BOOLEAN
  /\ sessions \in ListsUpTo({SessionA, SessionB, SessionC}, MaxDiscovered)
  /\ cpc = "start"
  /\ selected = NoSession
  /\ to_check = <<>>
  /\ position = 0
  /\ futures = [w \in {"verdict", "insight"} |-> NoFuture]
  /\ check_result = JNull
  /\ check_insights = JNull
  /\ pending = NoOutcome
  /\ calls = <<>>
  /\ attempted = <<>>
  /\ echoed = <<>>
  /\ exit_status = "none"

\* the variables the command report leaves alone
otherThanBatch == <<callVars, hookVars, sessVars, configVars, poolVars, fpc,
                    verdicts, groups, command, last, quiet, no_insights, count,
                    has_policy, sessions, selected, futures, check_result,
                    check_insights>>

\* report up to the loop: the exits without a policy and without sessions,
\* to_check = sessions[:count], session_results = []
BatchStart ==
  /\ command = "report"
  /\ cpc = "start"
  /\ IF ~has_policy
     THEN /\ echoed' = Append(echoed, Out("no_policy", <<>>))
          /\ Exit(1)
          /\ UNCHANGED to_check
     ELSE IF sessions = <<>>
     THEN /\ echoed' = Append(echoed, Out("no_sessions", <<>>))
          /\ Exit(1)
          /\ UNCHANGED to_check
     ELSE /\ to_check' = FirstSessions(sessions, count)
          /\ cpc' = "loop"
          /\ UNCHANGED <<echoed, exit_status>>
  /\ UNCHANGED <<position, pending, calls, attempted, session_results, report>>
  /\ UNCHANGED otherThanBatch

\* an iteration of the loop on a session without messages: continue
SkipEmpty ==
  /\ command = "report"
  /\ cpc = "loop"
  /\ position < Len(to_check)
  /\ to_check[position + 1].messages = 0
  /\ position' = position + 1
  /\ UNCHANGED <<cpc, to_check, pending, calls, attempted, echoed, exit_status,
                 session_results, report>>
  /\ UNCHANGED otherThanBatch

\* the iteration after run_check ended with o for the session s: a caught
\* error is written and the loop continues; a value is appended and its
\* inline summary written, which raises AttributeError on a value without
\* get; any other exception leaves the loop and the command
AfterRunCheck(s, o) ==
  /\ attempted' = Append(attempted, [label |-> s.label, res |-> o])
  /\ IF o.outcome \in CaughtErrors
     THEN /\ echoed' = echoed \o PrintedBy(o) \o <<Err("error", o.errmsg)>>
          /\ position' = position + 1
          /\ UNCHANGED <<cpc, exit_status, session_results, pending>>
     ELSE IF o.outcome = "return"
     THEN /\ session_results' =
               Append(session_results, [session_label |-> s.label, result |-> o.retval])
          /\ IF o.retval.t = "obj"
             THEN /\ echoed' = Append(echoed,
                                      Out("inline", TallyVerdicts(VerdictsOf(o.retval))))
                  /\ position' = position + 1
                  /\ UNCHANGED <<cpc, exit_status>>
             ELSE /\ echoed' = Append(echoed, Err("traceback", <<"AttributeError">>))
                  /\ Exit(1)
                  /\ UNCHANGED position
          /\ UNCHANGED pending
     ELSE /\ pending' = o
          /\ echoed' = echoed \o PrintedBy(o)
               \o (IF o.outcome = "SystemExit" THEN <<>>
                   ELSE <<Err("traceback", <<o.outcome>>)>>)
          /\ Exit(1)
          /\ UNCHANGED <<position, session_results>>

\* an iteration of the loop on a session with messages: run_check in the
\* try block, except (ClaudeNotFoundError, RuntimeError), append, summary
CheckSession ==
  /\ command = "report"
  /\ cpc = "loop"
  /\ position < Len(to_check)
  /\ to_check[position + 1].messages > 0
  /\ calls' = Append(calls, "run_check")
  /\ \E found \in BOOLEAN, run \in CliRuns :
       AfterRunCheck(to_check[position + 1], OutcomeOf("run_check", found, run))
  /\ UNCHANGED <<to_check, report>>
  /\ UNCHANGED otherThanBatch

\* sum(count_verdicts(r["result"].get("verdicts", []))["fail"] for r in
\* session_results)
RECURSIVE TotalFail(_)
TotalFail(entries) ==
  IF entries = <<>> THEN 0
  ELSE TallyVerdicts(VerdictsOf(Head(entries).result)).fail + TotalFail(Tail(entries))

\* after the loop: without results the message and sys.exit(0); with results
\* the terminal summary and the markdown report
BatchEnd ==
  /\ command = "report"
  /\ cpc = "loop"
  /\ position = Len(to_check)
  /\ IF session_results = <<>>
     THEN /\ echoed' = Append(echoed, Out("nothing_checked", <<>>))
          /\ UNCHANGED report
     ELSE /\ echoed' = echoed \o <<Out("checked", Len(session_results)),
                                   Out("violations", TotalFail(session_results)),
                                   Out("saved", <<>>)>>
          /\ report' = FormatReportMarkdown(session_results)
  /\ Exit(0)
  /\ UNCHANGED <<to_check, position, pending, calls, attempted, session_results>>
  /\ UNCHANGED otherThanBatch

NextBatch ==
  \/ BatchStart
  \/ SkipEmpty
  \/ CheckSession
  \/ BatchEnd

SpecBatch == InitBatch /\ [][NextBatch]_vars


(***************************************************************************)
(* Properties of the command report                                        *)
(***************************************************************************)
HasMessages(s) == s.messages > 0
CallReturned(a) == a.res.outcome = "return"

\* the labels of a list of sessions, of attempts
Labels(ss) == [k \in 1..Len(ss) |-> ss[k].label]

\* the entries of the attempts whose call returned, in order
EntriesOf(as) ==
  [k \in 1..Len(as) |-> [session_label |-> as[k].label, result |-> as[k].res.retval]]

\* C18: in report, run_check is attempted for every session among the first
\* count sessions that has messages, whatever fatal condition earlier
\* sessions hit; the collected results are exactly the sessions whose call
\* succeeded, in session order; when none succeeded the exit status is 0.
BatchContinues ==
  (command = "report" /\ cpc = "exited" /\ has_policy /\ sessions # <<>>)
    => /\ Labels(attempted) = Labels(SelectSeq(FirstSessions(sessions, count), HasMessages))
       /\ session_results = EntriesOf(SelectSeq(attempted, CallReturned))
       /\ session_results = <<>> => exit_status = 0


(***************************************************************************)
(* setup_hook.py: install_hook and uninstall_hook on the settings file     *)
(***************************************************************************)
\* the longest SessionEnd list of the initial settings
MaxEntries == 2

\* the keys of the settings and of a hook entry
HooksKey == <<"h", "o", "o", "k", "s">>
SessionEndKey == <<"S", "e", "s", "s", "i", "o", "n", "E", "n", "d">>
MatcherKey == <<"m", "a", "t", "c", "h", "e", "r">>
TypeKey == <<"t", "y", "p", "e">>
CommandKey == <<"c", "o", "m", "m", "a", "n", "d">>
PreToolKey == <<"P", "r", "e", "T", "o", "o", "l">>

\* HOOK_COMMAND = "ai-lint check --last --quiet"
HOOK_COMMAND ==
  <<"a", "i", "-", "l", "i", "n", "t", " ", "c", "h", "e", "c", "k", " ", "-",
    "-", "l", "a", "s", "t", " ", "-", "-", "q", "u", "i", "e", "t">>

\* HOOK_COMMAND_TTY = "ai-lint check --last --quiet --tty"
HOOK_COMMAND_TTY ==
  <<"a", "i", "-", "l", "i", "n", "t", " ", "c", "h", "e", "c", "k", " ", "-",
    "-", "l", "a", "s", "t", " ", "-", "-", "q", "u", "i", "e", "t", " ", "-",
    "-", "t", "t", "y">>

\* the text _is_ailint_hook looks for
AiLintCheck ==
  <<"a", "i", "-", "l", "i", "n", "t", " ", "c", "h", "e", "c", "k">>

\* the command of a hook that is not of ai-lint
EchoDone ==
  <<"e", "c", "h", "o", " ", "d", "o", "n", "e">>

\* a hook of type command
CommandHook(cmd) == JObj(<< <<TypeKey, JStr(CommandKey)>>, <<CommandKey, JStr(cmd)>> >>)

\* an entry of a hook list: a matcher and hooks
HookEntryOf(hks) == JObj(<< <<MatcherKey, JStr(<<>>)>>, <<HooksKey, JArr(hks)>> >>)

\* HOOK_ENTRY
HOOK_ENTRY == HookEntryOf(<<CommandHook(HOOK_COMMAND_TTY)>>)

\* json.dumps(settings, indent=2): each level is indented by two more spaces
Indent(depth) == [k \in 1..(2 * depth) |-> " "]

RECURSIVE DumpsIndented(_, _), IndentedItems(_, _), IndentedPairs(_, _)
DumpsIndented(v, depth) ==
  CASE v.t = "arr" /\ v.items # <<>> ->
         <<"[", "\n">> \o IndentedItems(v.items, depth + 1)
           \o <<"\n">> \o Indent(depth) \o <<"]">>
    [] v.t = "obj" /\ v.kv # <<>> ->
         <<"{", "\n">> \o IndentedPairs(v.kv, depth + 1)
           \o <<"\n">> \o Indent(depth) \o <<"}">>
    [] OTHER -> Dumps(v, "default")

IndentedItems(items, depth) ==
  Indent(depth) \o DumpsIndented(items[1], depth)
    \o (IF Len(items) = 1 THEN <<>>
        ELSE <<",", "\n">> \o IndentedItems(Tail(items), depth))

IndentedPairs(kv, depth) ==
  Indent(depth) \o EncodeStr(kv[1][1]) \o <<":", " ">> \o DumpsIndented(kv[1][2], depth)
    \o (IF Len(kv) = 1 THEN <<>>
        ELSE <<",", "\n">> \o IndentedPairs(Tail(kv), depth))

\* read_settings(): {} without a file, else json.loads of its text
ReadSettings(file) == IF ~file.exists THEN JObj(<<>>) ELSE Loads(file.text).val

\* write_settings(settings): the text json.dumps(settings, indent=2) + "\n"
WriteSettings(v) == File(DumpsIndented(v, 0) \o <<"\n">>)

\* _is_ailint_hook(command): "ai-lint check" in command
IsAilintHook(cmd) == Contains(cmd, AiLintCheck)

\* h.get("command", "") and entry.get("hooks", [])
CommandOf(h) == IF HasKey(h, CommandKey) THEN GetKey(h, CommandKey).s ELSE <<>>
HooksOf(entry) == IF HasKey(entry, HooksKey) THEN GetKey(entry, HooksKey).items ELSE <<>>

\* any(_is_ailint_hook(h.get("command", "")) for h in entry.get("hooks", []))
AnyAilintHook(entry) ==
  \E n \in 1..Len(HooksOf(entry)) : IsAilintHook(CommandOf(HooksOf(entry)[n]))

\* settings.get("hooks", {}).get("SessionEnd", [])
SessionEndOf(v) ==
  IF HasKey(v, HooksKey) /\ HasKey(GetKey(v, HooksKey), SessionEndKey)
  THEN GetKey(GetKey(v, HooksKey), SessionEndKey).items
  ELSE <<>>

\* is_hook_installed()
IsHookInstalled(file) ==
  \E n \in 1..Len(SessionEndOf(ReadSettings(file))) :
    AnyAilintHook(SessionEndOf(ReadSettings(file))[n])

\* the list comprehension keeping every entry
WithoutAilint_KeepAll(entries) == entries
\* [entry for entry in session_end if not any(...)]
WithoutAilint(entries) ==
  LET NotAilint(entry) == ~AnyAilintHook(entry) IN SelectSeq(entries, NotAilint)

\* settings["hooks"]["SessionEnd"] = entries
WithSessionEnd(v, entries) ==
  JObj(DictSet(v.kv, HooksKey,
               JObj(DictSet(GetKey(v, HooksKey).kv, SessionEndKey, JArr(entries)))))

\* if "hooks" not in settings: settings["hooks"] = {}; if "SessionEnd" not in
\* settings["hooks"]: settings["hooks"]["SessionEnd"] = []
WithDefaults(v) ==
  IF ~HasKey(v, HooksKey)
  THEN JObj(Append(v.kv, <<HooksKey,
                           JObj(<< <<SessionEndKey, JArr(<<>>)>> >>)>>))
  ELSE IF ~HasKey(GetKey(v, HooksKey), SessionEndKey)
  THEN WithSessionEnd(v, <<>>)
  ELSE v

\* the settings install_hook writes for the settings it read
Installed(v) ==
  WithSessionEnd(WithDefaults(v),
                 Append(WithoutAilint(SessionEndOf(v)), HOOK_ENTRY))

\* the settings uninstall_hook writes for the settings it read
Uninstalled(v) == WithSessionEnd(v, WithoutAilint(SessionEndOf(v)))

\* the entries an initial SessionEnd list is made of: the current entry, the
\* entry of an older version, an entry of another tool, an entry with a hook
\* of another tool and one of ai-lint, an entry without hooks, and an entry
\* whose hook has no command
InitialEntries ==
  {HOOK_ENTRY,
   HookEntryOf(<<CommandHook(HOOK_COMMAND)>>),
   HookEntryOf(<<CommandHook(EchoDone)>>),
   HookEntryOf(<<CommandHook(EchoDone), CommandHook(HOOK_COMMAND)>>),
   JObj(<< <<MatcherKey, JStr(<<"B">>)>> >>),
   HookEntryOf(<< JObj(<< <<TypeKey, JStr(CommandKey)>> >>) >>)}

\* the initial settings: an empty object, hooks without SessionEnd, with
\* another event, and with each SessionEnd list
InitialSettings ==
  {JObj(<<>>),
   JObj(<< <<HooksKey, JObj(<<>>)>> >>),
   JObj(<< <<HooksKey, JObj(<< <<PreToolKey, JArr(<<>>)>> >>)>> >>)}
    \cup {JObj(<< <<HooksKey, JObj(<< <<SessionEndKey, JArr(l)>> >>)>> >>) :
            l \in ListsUpTo(InitialEntries, MaxEntries)}
    \cup {JObj(<< <<HooksKey, JObj(<< <<SessionEndKey, JArr(l)>>,
                                      <<PreToolKey, JArr(<<>>)>> >>)>>,
                  <<<<"x">>, JInt(1)>> >>) :
            l \in ListsUpTo(InitialEntries, MaxEntries)}

\* no settings file, or a file holding json.dumps of initial settings
InitHook ==
  /\ IdleCall
  /\ IdleFormat
  /\ IdleCli
  /\ IdleFiles
  /\ IdlePool
  /\ settings \in {Missing} \cup {File(Dumps(v, "default")) : v \in InitialSettings}
  /\ hook_op = "none"
  /\ hook_said = <<>>

otherThanHook == <<callVars, formatVars, cliVars, sessVars, configVars,
                   poolVars>>

\* install_hook()
InstallHook ==
  /\ settings' = WriteSettings(Installed(ReadSettings(settings)))
  /\ hook_said' =
       IF Len(WithoutAilint(SessionEndOf(ReadSettings(settings))))
            # Len(SessionEndOf(ReadSettings(settings)))
       THEN <<"Updated ai-lint SessionEnd hook in ~/.claude/settings.json">>
       ELSE <<"Installed SessionEnd hook in ~/.claude/settings.json">>
  /\ hook_op' = "install"
  /\ UNCHANGED otherThanHook

\* uninstall_hook()
UninstallHook ==
  /\ IF ~IsHookInstalled(settings)
     THEN /\ hook_said' = <<"ai-lint hook is not installed.">>
          /\ UNCHANGED settings
     ELSE /\ settings' = WriteSettings(Uninstalled(ReadSettings(settings)))
          /\ hook_said' = <<"Removed ai-lint SessionEnd hook.">>
  /\ hook_op' = "uninstall"
  /\ UNCHANGED otherThanHook

NextHook == InstallHook \/ UninstallHook

SpecHook == InitHook /\ [][NextHook]_vars


(***************************************************************************)
(* Properties of install_hook and uninstall_hook                           *)
(***************************************************************************)
\* the entry carries an ai-lint hook command: one of its hooks has a command
\* that holds "ai-lint check"
CarriesAilint(entry) ==
  /\ HasKey(entry, HooksKey)
  /\ \E n \in 1..Len(GetKey(entry, HooksKey).items) :
       /\ HasKey(GetKey(entry, HooksKey).items[n], CommandKey)
       /\ Contains(GetKey(GetKey(entry, HooksKey).items[n], CommandKey).s, AiLintCheck)

\* the entries of the SessionEnd list of the settings file that carry one
AilintEntries == SelectSeq(SessionEndOf(ReadSettings(settings)), CarriesAilint)

\* C20: from any initial settings and after any sequence of install_hook and
\* uninstall_hook calls, the SessionEnd list holds at most one entry carrying
\* an ai-lint hook command: exactly one, HOOK_ENTRY, after install_hook and
\* none after uninstall_hook; is_hook_installed is true after install and
\* false after uninstall.
HookIdempotent ==
  /\ hook_op # "none" => Len(AilintEntries) <= 1
  /\ hook_op = "install" =>
       AilintEntries = <<HOOK_ENTRY>> /\ IsHookInstalled(settings)
  /\ hook_op = "uninstall" =>
       AilintEntries = <<>> /\ ~IsHookInstalled(settings)

\* install_hook replaced an ai-lint entry in settings that also hold the
\* entry of another tool: that entry is kept, HOOK_ENTRY follows it
HookIdempotentWitness ==
  /\ hook_op = "install"
  /\ hook_said = <<"Updated ai-lint SessionEnd hook in ~/.claude/settings.json">>
  /\ SessionEndOf(ReadSettings(settings))
       = <<HookEntryOf(<<CommandHook(EchoDone)>>), HOOK_ENTRY>>


\* the commands of the hooks of an entry, of a list of entries, in order
CommandsOfEntry(entry) == [n \in 1..Len(HooksOf(entry)) |-> CommandOf(HooksOf(entry)[n])]
RECURSIVE CommandsOf(_)
CommandsOf(entries) ==
  IF entries = <<>> THEN <<>>
  ELSE CommandsOfEntry(Head(entries)) \o CommandsOf(Tail(entries))

\* a command that does not belong to ai-lint
Foreign(cmd) == ~Contains(cmd, AiLintCheck)

\* the foreign hook commands of the SessionEnd list of a settings file
ForeignCommands(file) ==
  SelectSeq(CommandsOf(SessionEndOf(ReadSettings(file))), Foreign)

\* the hook events of a settings file other than SessionEnd, and its keys
\* other than hooks, each with its value
NotSessionEnd(pair) == pair[1] # SessionEndKey
NotHooks(pair) == pair[1] # HooksKey
OtherEvents(file) ==
  IF HasKey(ReadSettings(file), HooksKey)
  THEN SelectSeq(GetKey(ReadSettings(file), HooksKey).kv, NotSessionEnd)
  ELSE <<>>
OtherKeys(file) == SelectSeq(ReadSettings(file).kv, NotHooks)

\* C21: install_hook and uninstall_hook leave every hook command that does
\* not belong to ai-lint, every other hook event and every other settings key
\* present and unchanged, whatever entry of the SessionEnd list the foreign
\* command sits in.
OtherHooksPreserved ==
  [][/\ ForeignCommands(settings') = ForeignCommands(settings)
     /\ OtherEvents(settings') = OtherEvents(settings)
     /\ OtherKeys(settings') = OtherKeys(settings)]_vars


(***************************************************************************)
(* sessions.py: parse_session                                              *)
(***************************************************************************)
\* the longest session file, in lines, and the largest max_messages
MaxLines == 2
MaxMessages == 2

\* the keys and the strings parse_session and _extract_text look for
MessageKey == <<"m", "e", "s", "s", "a", "g", "e">>
RoleKey == <<"r", "o", "l", "e">>
ContentKey == <<"c", "o", "n", "t", "e", "n", "t">>
TimestampKey == <<"t", "i", "m", "e", "s", "t", "a", "m", "p">>
CwdKey == <<"c", "w", "d">>
TextKey == <<"t", "e", "x", "t">>
NameKey == <<"n", "a", "m", "e">>
InputKey == <<"i", "n", "p", "u", "t">>
FilePathKey == <<"f", "i", "l", "e", "_", "p", "a", "t", "h">>
PatternArgKey == <<"p", "a", "t", "t", "e", "r", "n">>
User == <<"u", "s", "e", "r">>
Assistant == <<"a", "s", "s", "i", "s", "t", "a", "n", "t">>
System == <<"s", "y", "s", "t", "e", "m">>
ToolUse == <<"t", "o", "o", "l", "_", "u", "s", "e">>
ToolResult == <<"t", "o", "o", "l", "_", "r", "e", "s", "u", "l", "t">>
Unknown == <<"u", "n", "k", "n", "o", "w", "n">>
Bash == <<"B", "a", "s", "h">>
Read == <<"R", "e", "a", "d">>
Write == <<"W", "r", "i", "t", "e">>
Edit == <<"E", "d", "i", "t">>
Grep == <<"G", "r", "e", "p">>
Glob == <<"G", "l", "o", "b">>

\* the texts _extract_text writes for tool blocks
ToolOpen == <<"[", "T", "o", "o", "l", ":", " ">>
ToolClose == <<"]">>
ToolBash == <<"[", "T", "o", "o", "l", ":", " ", "B", "a", "s", "h", "]", " ">>
ToolGrep ==
  <<"[", "T", "o", "o", "l", ":", " ", "G", "r", "e", "p", "]", " ", "p",
    "a", "t", "t", "e", "r", "n", "=">>
ToolGlob == <<"[", "T", "o", "o", "l", ":", " ", "G", "l", "o", "b", "]", " ">>
ToolResultOpen ==
  <<"[", "T", "o", "o", "l", " ", "R", "e", "s", "u", "l", "t", "]", " ">>
Truncated ==
  <<".", ".", ".", " ", "(", "t", "r", "u", "n", "c", "a", "t", "e", "d",
    ")">>

\* the length tool results are truncated to
TruncateAt == 500

\* d.get(key): None for a key that is not there
Get(d, k) == IF HasKey(d, k) THEN GetKey(d, k) ELSE JNull
\* d.get(key, "") of a string value, d.get(key, {}) of a dict value
GetText(d, k) == IF HasKey(d, k) THEN GetKey(d, k).s ELSE <<>>
GetDict(d, k) == IF HasKey(d, k) THEN GetKey(d, k) ELSE JObj(<<>>)

\* the part of a tool_use block
ToolUseText(tool, inp) ==
  IF tool = Bash THEN ToolBash \o GetText(inp, CommandKey)
  ELSE IF tool \in {Read, Write, Edit}
  THEN ToolOpen \o tool \o ToolClose \o <<" ">> \o GetText(inp, FilePathKey)
  ELSE IF tool = Grep THEN ToolGrep \o GetText(inp, PatternArgKey)
  ELSE IF tool = Glob THEN ToolGlob \o GetText(inp, PatternArgKey)
  ELSE ToolOpen \o tool \o ToolClose

\* the part of a tool_result block with the string content c
ToolResultText(c) ==
  ToolResultOpen
    \o (IF Len(c) > TruncateAt THEN SubSeq(c, 1, TruncateAt) \o Truncated ELSE c)

\* the parts a block adds: none or one
BlockParts(block) ==
  IF block.t = "str" THEN <<block.s>>
  ELSE IF block.t # "obj" THEN <<>>
  ELSE IF Get(block, TypeKey) = JStr(TextKey) THEN <<GetKey(block, TextKey).s>>
  ELSE IF Get(block, TypeKey) = JStr(ToolUse)
  THEN <<ToolUseText(IF HasKey(block, NameKey) THEN GetKey(block, NameKey).s ELSE Unknown,
                     GetDict(block, InputKey))>>
  ELSE IF Get(block, TypeKey) = JStr(ToolResult)
  THEN IF Get(block, ContentKey).t = "str" /\ Get(block, ContentKey).s # <<>>
       THEN <<ToolResultText(Get(block, ContentKey).s)>>
       ELSE <<>>
  ELSE <<>>

RECURSIVE PartsOf(_)
PartsOf(blocks) ==
  IF blocks = <<>> THEN <<>> ELSE BlockParts(Head(blocks)) \o PartsOf(Tail(blocks))

\* _extract_text(content)
ExtractText(content) ==
  IF content.t = "str" THEN content.s
  ELSE IF content.t = "arr" THEN Join(PartsOf(content.items))
  ELSE PyStr(content)

\* isinstance(content, list) and all(isinstance(b, dict) and b.get("type") ==
\* "tool_result" for b in content)
PureToolResult(content) ==
  /\ content.t = "arr"
  /\ \A n \in 1..Len(content.items) :
       /\ content.items[n].t = "obj"
       /\ Get(content.items[n], TypeKey) = JStr(ToolResult)

\* Message(role=role, text=text, timestamp=timestamp)
Message(role, text, timestamp) == [role |-> role, text |-> text, timestamp |-> timestamp]

\* the message an entry gives, for an entry that gives one
MessageOf(entry) ==
  Message(Get(GetDict(entry, MessageKey), RoleKey),
          ExtractText(Get(GetDict(entry, MessageKey), ContentKey)),
          IF HasKey(entry, TimestampKey) THEN GetKey(entry, TimestampKey) ELSE JStr(<<>>))

\* entry_type not in ("user", "assistant")
TypeSkipped(entry) == Get(entry, TypeKey) \notin {JStr(User), JStr(Assistant)}

\* the entry passes every continue of the loop body
GivesMessage(entry) ==
  /\ ~TypeSkipped(entry)
  /\ Truthy(Get(GetDict(entry, MessageKey), RoleKey))
  /\ Truthy(Get(GetDict(entry, MessageKey), ContentKey))
  /\ Strip(ExtractText(Get(GetDict(entry, MessageKey), ContentKey))) # <<>>
  /\ ~PureToolResult(Get(GetDict(entry, MessageKey), ContentKey))

\* if len(messages) >= max_messages: break
LimitReached(n, limit) == n >= limit

\* the entries of the session files
TextContent(c) == JObj(<< <<TypeKey, JStr(TextKey)>>, <<TextKey, JStr(c)>> >>)
EntryOf(type, role, content) ==
  JObj(<< <<TypeKey, JStr(type)>>,
          <<MessageKey, JObj(<< <<RoleKey, JStr(role)>>, <<ContentKey, content>> >>)>> >>)
SessionEntryValues ==
  {JObj(<< <<TypeKey, JStr(User)>>, <<CwdKey, JStr(<<"/", "d">>)>>,
           <<TimestampKey, JStr(<<"t", "1">>)>>,
           <<MessageKey, JObj(<< <<RoleKey, JStr(User)>>,
                                 <<ContentKey, JStr(<<"h", "i">>)>> >>)>> >>),
   EntryOf(Assistant, Assistant, JArr(<<TextContent(<<"o", "k">>)>>)),
   EntryOf(System, System, JStr(<<"s">>)),
   EntryOf(User, System, JStr(<<"x">>)),
   EntryOf(User, User,
           JArr(<< JObj(<< <<TypeKey, JStr(ToolResult)>>,
                           <<ContentKey, JStr(<<"r">>)>> >>) >>)),
   EntryOf(User, User, JStr(<<" ">>)),
   EntryOf(Assistant, Assistant,
           JArr(<< JObj(<< <<TypeKey, JStr(ToolUse)>>, <<NameKey, JStr(Bash)>>,
                           <<InputKey, JObj(<< <<CommandKey, JStr(<<"l", "s">>)>> >>)>> >>) >>)),
   JObj(<< <<TypeKey, JStr(User)>> >>)}

\* the lines of the session files: blank, text that is no JSON, a JSON list,
\* and the entries, each with its newline
SessionLines ==
  {<<"\n">>, <<"a", "\n">>, <<"[", "]", "\n">>}
    \cup {Dumps(e, "default") \o <<"\n">> : e \in SessionEntryValues}

\* no function of config.py is being called
IdleConfig ==
  /\ config_dir = FALSE
  /\ policy_file = Missing
  /\ config_op = "none"
  /\ config_raised = "none"

\* one call of parse_session(session, max_messages)
InitParse ==
  /\ IdleCall
  /\ IdleFormat
  /\ IdleCli
  /\ IdleHook
  /\ IdleConfig
  /\ IdlePool
  /\ session_file \in ListsUpTo(SessionLines, MaxLines)
  /\ max_messages \in 0..MaxMessages
  /\ line_no = 0
  /\ messages = <<>>
  /\ cwd = <<>>
  /\ first_timestamp = JNull
  /\ spc = "loop"
  /\ projects = <<>>
  /\ discovered = <<>>

otherThanParse == <<callVars, formatVars, cliVars, hookVars, configVars, poolVars,
                    session_file, max_messages, projects, discovered>>

\* the body of the loop for a decoded entry; entry.get raises AttributeError
\* when the line holds JSON that is no object
LoopBody(entry) ==
  IF entry.t # "obj"
  THEN /\ spc' = "AttributeError"
       /\ UNCHANGED <<messages, cwd, first_timestamp>>
  ELSE /\ cwd' = IF cwd = <<>> /\ Truthy(Get(entry, CwdKey))
                 THEN GetKey(entry, CwdKey).s ELSE cwd
       /\ IF GivesMessage(entry)
          THEN /\ first_timestamp' = IF first_timestamp = JNull
                                     THEN MessageOf(entry).timestamp
                                     ELSE first_timestamp
               /\ messages' = Append(messages, MessageOf(entry))
               /\ spc' = IF LimitReached(Len(messages) + 1, max_messages)
                         THEN "after" ELSE "loop"
          ELSE UNCHANGED <<messages, first_timestamp, spc>>

\* one iteration of for line in f: strip, skip a blank line, json.loads, skip
\* a JSONDecodeError, then the body
ReadLine ==
  /\ spc = "loop"
  /\ line_no < Len(session_file)
  /\ line_no' = line_no + 1
  /\ IF Strip(session_file[line_no + 1]) = <<>>
        \/ ~Loads(Strip(session_file[line_no + 1])).ok
     THEN UNCHANGED <<messages, cwd, first_timestamp, spc>>
     ELSE LoopBody(Loads(Strip(session_file[line_no + 1])).val)
  /\ UNCHANGED otherThanParse

\* after the loop: session.messages = messages, session.cwd = cwd,
\* session.timestamp = first_timestamp or ""; return session
ParseReturn ==
  /\ \/ spc = "after"
     \/ spc = "loop" /\ line_no = Len(session_file)
  /\ spc' = "done"
  /\ first_timestamp' = IF Truthy(first_timestamp) THEN first_timestamp ELSE JStr(<<>>)
  /\ UNCHANGED <<line_no, messages, cwd>>
  /\ UNCHANGED otherThanParse

NextParse == ReadLine \/ ParseReturn

SpecParse == InitParse /\ [][NextParse]_vars


\* the messages of the qualifying entries of a file, in file order
RECURSIVE QualifyingMessages(_)
QualifyingMessages(file) ==
  IF file = <<>> THEN <<>>
  ELSE (IF /\ Strip(Head(file)) # <<>>
           /\ Loads(Strip(Head(file))).ok
           /\ Loads(Strip(Head(file))).val.t = "obj"
           /\ GivesMessage(Loads(Strip(Head(file))).val)
        THEN <<MessageOf(Loads(Strip(Head(file))).val)>>
        ELSE <<>>) \o QualifyingMessages(Tail(file))

\* the first n of a list, all of it when it is shorter
FirstOf(list, n) == SubSeq(list, 1, IF n < Len(list) THEN n ELSE Len(list))

\* C22: parse_session never returns more than max_messages messages, for every
\* session file and every max_messages value, 0 included, and the messages it
\* returns are the first qualifying entries of the file in file order.
MaxMessagesRespected ==
  spc = "done" =>
    /\ Len(messages) <= max_messages
    /\ messages = FirstOf(QualifyingMessages(session_file), max_messages)

\* C23: every message returned by parse_session has role "user" or
\* "assistant", also when an entry of type user or assistant carries a message
\* whose role is something else.
RolesUserOrAssistant ==
  spc = "done" =>
    \A n \in 1..Len(messages) : messages[n].role \in {JStr(User), JStr(Assistant)}


(***************************************************************************)
(* Fence recognition: letter case of the tag, newlines around the body     *)
(***************************************************************************)
\* C24: fence recognition is case-insensitive and newline-tolerant.  When the
\* exit-0 stdout is the JSON text of X in a triple-backtick block whose tag is
\* json in any letter case, or whose body is not separated by a newline from
\* the opening or the closing marker, the reply is recovered: X is decoded and
\* run_check returns it; the call does not end in the unparseable error.
FenceTolerant ==
  DoneAfterExit0 =>
    \A p \in CaseFenceReplies \cup TightFenceReplies :
      stdout = p.text =>
        /\ decoded = p.X
        /\ outcome # "RuntimeError"
        /\ fn = "run_check" => outcome = "return" /\ retval = p.X


(***************************************************************************)
(* format_verdicts, and the verdict tokens of both formatters              *)
(***************************************************************************)
\* {"PASS": "+", "FAIL": "x", "SKIP": "-"}.get(v["verdict"], "?"), the
\* fallback left out: an unknown token gets the icon of SKIP
TerminalIcon_UnknownAsSkip(token) ==
  CASE token = JStr(PASS) -> <<"+">>
    [] token = JStr(FAIL) -> <<"x">>
    [] OTHER -> <<"-">>

\* {"PASS": "+", "FAIL": "x", "SKIP": "-"}.get(v["verdict"], "?")
TerminalIcon(token) ==
  CASE token = JStr(PASS) -> <<"+">>
    [] token = JStr(FAIL) -> <<"x">>
    [] token = JStr(SKIP) -> <<"-">>
    [] OTHER -> <<"?">>

\* f"  [{icon}] {v['verdict']}: {v['rule']}" and f"      {v['reasoning']}"
TerminalVerdictLines(v) ==
  << <<" ", " ", "[">> \o TerminalIcon(GetKey(v, VerdictKey)) \o <<"]", " ">>
       \o PyStr(GetKey(v, VerdictKey)) \o <<":", " ">> \o PyStr(GetKey(v, RuleKey)),
     <<" ", " ", " ", " ", " ", " ">> \o PyStr(GetKey(v, ReasoningKey)) >>

RECURSIVE TerminalGroupVerdictLines(_)
TerminalGroupVerdictLines(vs) ==
  IF vs = <<>> THEN <<>>
  ELSE TerminalVerdictLines(Head(vs)) \o TerminalGroupVerdictLines(Tail(vs))

\* the lines of the groups: the category, its verdicts, an empty line
RECURSIVE TerminalGroupLines(_)
TerminalGroupLines(gs) ==
  IF gs = <<>> THEN <<>>
  ELSE << <<" ", " ">> \o PyStr(gs[1][1]) >>
       \o TerminalGroupVerdictLines(gs[1][2]) \o << <<>> >>
       \o TerminalGroupLines(Tail(gs))

\* format_verdicts(result)
FormatVerdicts(result) ==
  Join(TerminalGroupLines(GroupByCategory(VerdictsOf(result)))
       \o << <<"R", "e", "s", "u", "l", "t", "s", ":", " ">>
               \o Counts(CountVerdicts(VerdictsOf(result), PASS),
                         CountVerdicts(VerdictsOf(result), FAIL),
                         CountVerdicts(VerdictsOf(result), SKIP)),
             <<>> >>
       \o (IF SummaryOf(result) # <<>>
           THEN << <<"S", "u", "m", "m", "a", "r", "y", ":", " ">> \o SummaryOf(result) >>
           ELSE <<>>))

\* a verdict with rule, verdict and reasoning, the verdict being any value
\* that can be a dict key
VerdictWith(rule, token) ==
  JObj(<< <<RuleKey, JStr(rule)>>, <<VerdictKey, token>>,
          <<ReasoningKey, JStr(<<"w", "h", "y">>)>> >>)

\* the verdict tokens: the three of the enum, the same word in lower case,
\* another word, the empty string, and values that are no string
Tokens ==
  {JStr(PASS), JStr(FAIL), JStr(SKIP), JStr(<<"p", "a", "s", "s">>),
   JStr(<<"M", "A", "Y", "B", "E">>), JStr(<<>>), JNull, JInt(1)}
KnownTokens == {JStr(PASS), JStr(FAIL), JStr(SKIP)}

TokenVerdicts == {VerdictWith(<<"r">>, token) : token \in Tokens}

\* the result of run_check that holds the verdicts, and the entry of the
\* report made from it
ResultOf(vs) ==
  JObj(<< <<VerdictsKey, JArr(vs)>>, <<SummaryKey, JStr(<<"o", "k">>)>> >>)
EntryOf1(vs) == [session_label |-> <<"s">>, result |-> ResultOf(vs)]

\* one call of format_verdicts or of format_report_markdown on a verdict list
InitTokens ==
  /\ IdleCall
  /\ IdleCli
  /\ IdleHook
  /\ IdleFiles
  /\ IdlePool
  /\ fpc = "call"
  /\ verdicts \in ListsUpTo(TokenVerdicts, MaxVerdicts)
  /\ groups = <<>>
  /\ session_results = <<>>
  /\ report = <<>>

\* report = format_verdicts({"verdicts": verdicts, "summary": "ok"})
CallFormatVerdicts ==
  /\ fpc = "call"
  /\ report' = FormatVerdicts(ResultOf(verdicts))
  /\ fpc' = "terminal"
  /\ UNCHANGED <<verdicts, groups, session_results>>
  /\ UNCHANGED otherThanFormat

\* report = format_report_markdown([{"session_label": "s", "result": ...}])
CallFormatReportOne ==
  /\ fpc = "call"
  /\ session_results' = <<EntryOf1(verdicts)>>
  /\ report' = FormatReportMarkdown(<<EntryOf1(verdicts)>>)
  /\ fpc' = "markdown"
  /\ UNCHANGED <<verdicts, groups>>
  /\ UNCHANGED otherThanFormat

NextTokens == CallFormatVerdicts \/ CallFormatReportOne

SpecTokens == InitTokens /\ [][NextTokens]_vars

\* the positions of the verdict list that hold the token
Holding(token) == {k \in 1..Len(verdicts) : GetKey(verdicts[k], VerdictKey) = token}

\* "p passed, f failed, s skipped" for the numbers of PASS, FAIL, SKIP
TalliesText ==
  IntToDigits(Cardinality(Holding(JStr(PASS))))
    \o <<" ", "p", "a", "s", "s", "e", "d", ",", " ">>
    \o IntToDigits(Cardinality(Holding(JStr(FAIL))))
    \o <<" ", "f", "a", "i", "l", "e", "d", ",", " ">>
    \o IntToDigits(Cardinality(Holding(JStr(SKIP))))
    \o <<" ", "s", "k", "i", "p", "p", "e", "d">>

\* the verdicts with a token that is none of PASS, FAIL, SKIP
UnknownAt == {k \in 1..Len(verdicts) : GetKey(verdicts[k], VerdictKey) \notin KnownTokens}

\* the text has the line: the line between two newlines or the ends of the text
HasLine(line) == Contains(<<"\n">> \o report \o <<"\n">>, line)

\* C25: unknown verdict tokens are tolerated.  For every verdict list whose
\* verdicts have rule, verdict and reasoning, format_verdicts and
\* format_report_markdown return a text; its tallies are the numbers of PASS,
\* FAIL and SKIP tokens exactly, a verdict with any other token is in none of
\* them (the three add up to the verdicts with a known token, at most all),
\* and its line carries the fallback marker, "?" or the question mark icon.
UnknownTokensTolerated ==
  /\ fpc = "terminal" =>
       /\ HasLine(<<"\n", "R", "e", "s", "u", "l", "t", "s", ":", " ">>
                             \o TalliesText \o <<"\n">>)
       /\ \A k \in UnknownAt :
            HasLine(<<"\n", " ", " ", "[", "?", "]", " ">>
                               \o PyStr(GetKey(verdicts[k], VerdictKey))
                               \o <<":", " ", "r", "\n">>)
  /\ fpc = "markdown" =>
       /\ HasLine(<<"\n", "*", "*", "S", "c", "o", "r", "e", ":", " ">>
                             \o TalliesText \o <<"*", "*", "\n">>)
       /\ HasLine(<<"\n", "-", " ", "T", "o", "t", "a", "l", ":", " ">>
                             \o TalliesText \o <<"\n">>)
       /\ \A k \in UnknownAt :
            HasLine(<<"\n", "-", " ">> \o QuestionMark \o <<" ", "*", "*">>
                               \o PyStr(GetKey(verdicts[k], VerdictKey))
                               \o <<"*", "*", ":", " ", "r", "\n">>)
  /\ fpc \in {"terminal", "markdown"} =>
       Cardinality(Holding(JStr(PASS))) + Cardinality(Holding(JStr(FAIL)))
         + Cardinality(Holding(JStr(SKIP))) = Len(verdicts) - Cardinality(UnknownAt)

\* PASS, MAYBE, pass: one passed and two lines with the fallback marker
UnknownTokensToleratedWitness ==
  /\ fpc = "terminal"
  /\ verdicts = << VerdictWith(<<"r">>, JStr(PASS)),
                   VerdictWith(<<"r">>, JStr(<<"M", "A", "Y", "B", "E">>)),
                   VerdictWith(<<"r">>, JStr(<<"p", "a", "s", "s">>)) >>
  /\ Contains(report, <<"[", "?", "]", " ", "M", "A", "Y", "B", "E", ":">>)
  /\ Contains(report, <<"[", "?", "]", " ", "p", "a", "s", "s", ":">>)
  /\ Contains(report, <<"R", "e", "s", "u", "l", "t", "s", ":", " ", "1", " ", "p", "a",
                        "s", "s", "e", "d", ",", " ", "0", " ", "f", "a", "i", "l", "e",
                        "d", ",", " ", "0", " ", "s", "k", "i", "p", "p", "e", "d">>)


(***************************************************************************)
(* cli.py, check: the two calls of the pool, each with its local variables *)
(***************************************************************************)
\* ThreadPoolExecutor(max_workers=2)
MaxWorkers == 2

Workers == {"verdict", "insight"}
Other(w) == IF w = "verdict" THEN "insight" ELSE "verdict"

\* subprocess.run has not returned: result is not assigned
NotRun == Completed(0, <<>>, <<>>)

\* the local variables of a call that has not started
NotStarted == [pc |-> "pending", found |-> FALSE, result |-> NotRun, raw |-> <<>>]

\* what subprocess.run gives the calls of the pool: a timeout, a failed
\* process, verdicts, an insights object in a fenced block in an envelope, text
\* that holds no JSON, an envelope whose result is a number
NoVerdicts == JObj(<< <<VerdictsKey, JArr(<<>>)>> >>)
NotableOnly == JObj(<< <<Notable, JArr(<<>>)>> >>)
PoolRuns ==
  {TimedOutRun,
   Completed(1, <<>>, <<"e", "r", "r">>),
   Completed(0, Dumps(NoVerdicts, "default") \o <<"\n">>, <<>>),
   Completed(0, Envelope(Fenced(JsonTag, Dumps(NotableOnly, "compact")), "default"), <<>>),
   Completed(0, <<"a">>, <<>>),
   Completed(0, Dumps(JObj(<< <<ResultKey, JInt(1)>> >>), "default"), <<>>)}

\* the state of check when both calls are submitted
InitPool ==
  /\ IdleCall
  /\ IdleFormat
  /\ IdleHook
  /\ IdleFiles
  /\ command = "check"
  /\ last \in BOOLEAN
  /\ quiet = FALSE
  /\ no_insights = FALSE
  /\ count = 0
  /\ has_policy = TRUE
  /\ sessions \in {<<SessionA>>, <<SessionA, SessionB>>}
  /\ cpc = "verdict_result"
  /\ selected = SessionA
  /\ to_check = <<>>
  /\ position = 0
  /\ futures = [w \in Workers |-> [state |-> "pending", res |-> NoOutcome]]
  /\ check_result = JNull
  /\ check_insights = JNull
  /\ pending = NoOutcome
  /\ calls = <<>>
  /\ attempted = <<>>
  /\ echoed = (IF last THEN <<>> ELSE <<Out("recent", sessions)>>) \o Announce(SessionA)
  /\ exit_status = "none"
  /\ locals = [w \in Workers |-> NotStarted]

\* the variables the calls of the pool leave alone
otherThanPool == <<callVars, formatVars, hookVars, sessVars, configVars, command,
                   last, quiet, no_insights, count, has_policy, sessions, cpc,
                   selected, to_check, position, check_result, check_insights,
                   pending, attempted, exit_status>>

\* raw read as a variable the two calls share
RawOf_Shared(ls, w) == ls["verdict"].raw
\* raw, a local variable of the call
RawOf(ls, w) == ls[w].raw

\* the call of a future goes on with its local variables changed
GoesOn(w, local) ==
  /\ locals' = [locals EXCEPT ![w] = local]
  /\ UNCHANGED futures

\* the call of a future ends: the future holds the value or the exception
Ends(w, o) ==
  /\ locals' = [locals EXCEPT ![w].pc = "done"]
  /\ futures' = [futures EXCEPT ![w] = [state |-> "done", res |-> o]]

\* a worker starts the function of a future: if not check_claude_installed()
\* prints and exits, else the call goes on to subprocess.run
CallStart(w) ==
  /\ locals[w].pc = "pending"
  /\ calls' = Append(calls, FunctionOf(w))
  /\ \E found \in BOOLEAN :
       IF found
       THEN /\ locals' = [locals EXCEPT ![w].pc = "subprocess", ![w].found = TRUE]
            /\ futures' = [futures EXCEPT ![w].state = "running"]
            /\ UNCHANGED echoed
       ELSE /\ Ends(w, NotFoundOutcome)
            /\ echoed' = echoed \o PrintedBy(NotFoundOutcome)
  /\ UNCHANGED otherThanPool

\* subprocess.run returns or raises TimeoutExpired
ProcessEnds(w) ==
  /\ locals[w].pc = "subprocess"
  /\ \E run \in PoolRuns :
       IF run.timeout
       THEN /\ locals' = [locals EXCEPT ![w].pc = "done", ![w].result = run]
            /\ futures' = [futures EXCEPT ![w] = [state |-> "done",
                                                  res |-> Raised("RuntimeError", TimeoutMsg)]]
       ELSE GoesOn(w, [locals[w] EXCEPT !.pc = "returncode", !.result = run])
  /\ UNCHANGED <<calls, echoed>>
  /\ UNCHANGED otherThanPool

\* if result.returncode != 0: raise; raw = result.stdout.strip()
ReturnCode(w) ==
  /\ locals[w].pc = "returncode"
  /\ IF ExitFailed(locals[w].result.returncode)
     THEN Ends(w, Raised("RuntimeError", FailedMsg \o locals[w].result.stderr))
     ELSE GoesOn(w, [locals[w] EXCEPT !.pc = "envelope",
                                      !.raw = Strip(locals[w].result.stdout)])
  /\ UNCHANGED <<calls, echoed>>
  /\ UNCHANGED otherThanPool

\* the envelope step: raw = wrapper["result"].strip()
Unwrap(w) ==
  /\ locals[w].pc = "envelope"
  /\ IF HasEnvelope(RawOf(locals, w))
     THEN IF IsStr(GetKey(Loads(RawOf(locals, w)).val, ResultKey))
          THEN GoesOn(w, [locals[w] EXCEPT
                            !.pc = "fence",
                            !.raw = Strip(GetKey(Loads(RawOf(locals, w)).val, ResultKey).s)])
          ELSE Ends(w, Raised("AttributeError", <<"object has no attribute 'strip'">>))
     ELSE GoesOn(w, [locals[w] EXCEPT !.pc = "fence"])
  /\ UNCHANGED <<calls, echoed>>
  /\ UNCHANGED otherThanPool

\* the fence step: if fence_match: raw = fence_match.group(1)
Fence(w) ==
  /\ locals[w].pc = "fence"
  /\ GoesOn(w, [locals[w] EXCEPT
                  !.pc = "decode",
                  !.raw = FenceOutcome(RawOf(locals, w), FenceSearch(RawOf(locals, w)))])
  /\ UNCHANGED <<calls, echoed>>
  /\ UNCHANGED otherThanPool

\* json.loads(raw), for extract_insights _validate_insights, and the return
DecodeReturn(w) ==
  /\ locals[w].pc = "decode"
  /\ Ends(w, DecodeOutcome(FunctionOf(w), RawOf(locals, w), Loads(RawOf(locals, w))))
  /\ UNCHANGED <<calls, echoed>>
  /\ UNCHANGED otherThanPool

NextPool ==
  \E w \in Workers :
    \/ CallStart(w)
    \/ ProcessEnds(w)
    \/ ReturnCode(w)
    \/ Unwrap(w)
    \/ Fence(w)
    \/ DecodeReturn(w)

SpecPool == InitPool /\ [][NextPool]_vars

\* the outcome the call of a future has when it runs alone with what
\* shutil.which and subprocess.run gave it
Alone(w) == OutcomeOf(FunctionOf(w), locals[w].found, locals[w].result)

\* the calls whose process is running
InFlight == {w \in Workers : locals[w].pc = "subprocess"}

\* a step that changes the local variables or the future of a call
Touches(w) == locals'[w] # locals[w] \/ futures'[w] # futures[w]

\* C26: independence of the two concurrent calls.  In every interleaving of
\* the two calls of the pool the outcome of each call, value or error, is the
\* one the call has running alone; a step of one call changes neither the
\* local variables nor the future of the other; at most two external calls
\* are in flight at any time.
CallsIndependent ==
  /\ [](\A w \in Workers : futures[w].state = "done" => futures[w].res = Alone(w))
  /\ [](Cardinality(InFlight) <= MaxWorkers)
  /\ [][\A w \in Workers :
          Touches(w) => locals'[Other(w)] = locals[Other(w)]
                        /\ futures'[Other(w)] = futures[Other(w)]]_vars

\* the verdict call has returned the verdicts while the insight call, started
\* first, is between its envelope step and its fence step
CallsIndependentWitness ==
  /\ calls = <<"extract_insights", "run_check">>
  /\ futures["verdict"].state = "done"
  /\ futures["verdict"].res = Returned(NoVerdicts)
  /\ locals["insight"].pc = "fence"
  /\ locals["insight"].raw # locals["verdict"].raw
  /\ locals["insight"].raw # <<>>


(***************************************************************************)
(* sessions.py: _is_ai_lint_session and discover_sessions                  *)
(***************************************************************************)
\* the largest number of *.jsonl files under the projects directory
MaxFiles == 2

\* _AI_LINT_PROMPT_PREFIXES
ComplianceAuditorPrefix ==
  <<"Y", "o", "u", " ", "a", "r", "e", " ", "a", " ", "c", "o", "m", "p",
    "l", "i", "a", "n", "c", "e", " ", "a", "u", "d", "i", "t", "o", "r",
    " ", "f", "o", "r", " ", "A", "I", " ", "c", "o", "d", "i", "n", "g",
    " ", "s", "e", "s", "s", "i", "o", "n", "s", ".">>
DevelopmentCoachPrefix ==
  <<"Y", "o", "u", " ", "a", "r", "e", " ", "a", " ", "d", "e", "v", "e",
    "l", "o", "p", "m", "e", "n", "t", " ", "c", "o", "a", "c", "h", " ",
    "r", "e", "v", "i", "e", "w", "i", "n", "g", " ", "a", "n", " ", "A",
    "I", " ", "c", "o", "d", "i", "n", "g", " ", "s", "e", "s", "s", "i",
    "o", "n", " ", "t", "r", "a", "n", "s", "c", "r", "i", "p", "t", ".">>
AI_LINT_PROMPT_PREFIXES == {ComplianceAuditorPrefix, DevelopmentCoachPrefix}

\* any(content.startswith(prefix) for prefix in ...), with the first prefix only
StartsWithPrefix_FirstOnly(text) == StartsAt(text, 1, ComplianceAuditorPrefix)
\* any(content.startswith(prefix) for prefix in _AI_LINT_PROMPT_PREFIXES)
StartsWithPrefix(text) == \E prefix \in AI_LINT_PROMPT_PREFIXES : StartsAt(text, 1, prefix)

\* the blocks of a content list that are dicts of type text
TextBlocks(blocks) ==
  {n \in 1..Len(blocks) : blocks[n].t = "obj" /\ Get(blocks[n], TypeKey) = JStr(TextKey)}

\* the first text block of a content list that has one
FirstTextBlock(blocks) ==
  blocks[CHOOSE n \in TextBlocks(blocks) : \A k \in TextBlocks(blocks) : n <= k]

\* content = block["text"] (KeyError when the block has no text), and the
\* test of the content: "yes" for True, "no" for False
BlockVerdict(block) ==
  IF ~HasKey(block, TextKey) THEN "KeyError"
  ELSE IF GetKey(block, TextKey).t = "str" /\ StartsWithPrefix(GetKey(block, TextKey).s)
  THEN "yes" ELSE "no"

\* what the body of the loop does with the content of an entry of type user
ContentVerdict(content) ==
  IF content.t = "arr"
  THEN IF TextBlocks(content.items) = {} THEN "no"
       ELSE BlockVerdict(FirstTextBlock(content.items))
  ELSE IF content.t = "str" /\ StartsWithPrefix(content.s) THEN "yes" ELSE "no"

\* entry.get("message", {}).get("content", "") for an entry of type user;
\* .get on a message that is no dict raises AttributeError
UserVerdict(entry) ==
  IF GetDict(entry, MessageKey).t # "obj" THEN "AttributeError"
  ELSE ContentVerdict(IF HasKey(GetDict(entry, MessageKey), ContentKey)
                      THEN GetKey(GetDict(entry, MessageKey), ContentKey)
                      ELSE JStr(<<>>))

\* _is_ai_lint_session(path) on the lines of the file: "yes" for True, "no"
\* for False, or the exception that leaves the function; r is json.loads of
\* the first line, a blank line and a JSONDecodeError being skipped
RECURSIVE IsAiLintSession(_)
LineVerdict(r, rest) ==
  IF ~r.ok THEN IsAiLintSession(rest)
  ELSE IF r.val.t # "obj" THEN "AttributeError"
  ELSE IF Get(r.val, TypeKey) # JStr(User) THEN IsAiLintSession(rest)
  ELSE UserVerdict(r.val)
IsAiLintSession(lines) ==
  IF lines = <<>> THEN "no" ELSE LineVerdict(Loads(Strip(Head(lines))), Tail(lines))

\* "subagents" in jsonl_path.parts
InSubagents(file) == \E n \in 1..Len(file.parts) : file.parts[n] = "subagents"

\* the loop of discover_sessions over the files, newest first: the sessions
\* kept, or the exception of _is_ai_lint_session
RECURSIVE DiscoverLoop(_, _)
DiscoverStep(kept, files, own) ==
  IF own = "yes" THEN DiscoverLoop(kept, Tail(files))
  ELSE IF own = "no" THEN DiscoverLoop(Append(kept, Head(files)), Tail(files))
  ELSE [raised |-> own, sessions |-> <<>>]
DiscoverLoop(kept, files) ==
  IF files = <<>> THEN [raised |-> "none", sessions |-> kept]
  ELSE IF InSubagents(Head(files)) THEN DiscoverLoop(kept, Tail(files))
  ELSE DiscoverStep(kept, files, IsAiLintSession(Head(files).lines))

\* a line of a session file: an entry of type user (or another type) with a
\* message of the content
LineOf(type, content) == Dumps(EntryOf(type, type, content), "default") \o <<"\n">>

\* the prompts of the two functions as claude -p records them
CheckPrompt == BuildPrompt("run_check", <<"p">>, <<"t">>)
InsightPrompt == BuildPrompt("extract_insights", <<"p">>, <<"t">>)
ToolResultBlock == JObj(<< <<TypeKey, JStr(ToolResult)>>, <<ContentKey, JStr(<<"r">>)>> >>)

\* the contents of the files: a user session; the session of a compliance
\* call; the session of an insight call, its prompt in a text block; the
\* prompt after a blank line, a line that is no JSON and an entry of another
\* type; a user session that quotes the prompt in its second message; the
\* prompt in the text block after a tool result; a tool result only; an empty
\* file; the prompt in an assistant message; the prompt after a space; a line
\* that holds a JSON list
FileContents ==
  {<<LineOf(User, JStr(<<"h", "i">>))>>,
   <<LineOf(User, JStr(CheckPrompt))>>,
   <<LineOf(User, JArr(<<TextContent(InsightPrompt)>>))>>,
   <<<<"\n">>, <<"a", "\n">>, LineOf(System, JStr(<<"s">>)), LineOf(User, JStr(InsightPrompt))>>,
   <<LineOf(User, JStr(<<"h", "i">>)), LineOf(User, JStr(CheckPrompt))>>,
   <<LineOf(User, JArr(<<ToolResultBlock, TextContent(CheckPrompt)>>))>>,
   <<LineOf(User, JArr(<<ToolResultBlock>>))>>,
   <<>>,
   <<LineOf(Assistant, JStr(CheckPrompt)), LineOf(User, JStr(<<"h", "i">>))>>,
   <<LineOf(User, JStr(<<" ">> \o CheckPrompt))>>,
   <<<<"[", "]", "\n">>>>}

\* the files, each with the parts of its path below the projects directory:
\* sessions of a project, and a user session under a subagents directory
JsonlFiles ==
  {[parts |-> <<"p", "s.jsonl">>, lines |-> c] : c \in FileContents}
    \cup {[parts |-> <<"p", "s", "subagents", "a.jsonl">>,
           lines |-> <<LineOf(User, JStr(<<"h", "i">>))>>]}

\* no call of parse_session is being made
IdleParse ==
  /\ session_file = <<>>
  /\ max_messages = 0
  /\ line_no = 0
  /\ messages = <<>>
  /\ cwd = <<>>
  /\ first_timestamp = <<>>

\* one call of discover_sessions(); projects holds the *.jsonl files under
\* the projects directory, sorted by st_mtime, newest first
InitDiscover ==
  /\ IdleCall
  /\ IdleFormat
  /\ IdleCli
  /\ IdleHook
  /\ IdleConfig
  /\ IdlePool
  /\ IdleParse
  /\ spc = "call"
  /\ projects \in ListsUpTo(JsonlFiles, MaxFiles)
  /\ discovered = <<>>

\* discovered = discover_sessions()
Discovers(ended) ==
  /\ discovered' = ended.sessions
  /\ spc' = IF ended.raised = "none" THEN "done" ELSE ended.raised
CallDiscoverSessions ==
  /\ spc = "call"
  /\ Discovers(DiscoverLoop(<<>>, projects))
  /\ UNCHANGED <<session_file, max_messages, line_no, messages, cwd, first_timestamp,
                 projects>>
  /\ UNCHANGED <<callVars, formatVars, cliVars, hookVars, configVars, poolVars>>

SpecDiscover == InitDiscover /\ [][CallDiscoverSessions]_vars

\* the entries of a file: the lines that hold a JSON object, decoded
RECURSIVE EntriesIn(_)
EntryIn(r) == IF r.ok /\ r.val.t = "obj" THEN <<r.val>> ELSE <<>>
EntriesIn(lines) ==
  IF lines = <<>> THEN <<>>
  ELSE EntryIn(Loads(Strip(Head(lines)))) \o EntriesIn(Tail(lines))

\* the text of a message content: the string, or the text of the first text
\* block of a block list; nothing for any other content
TextOfContent(content) ==
  IF content.t = "str" THEN content.s
  ELSE IF content.t = "arr" /\ TextBlocks(content.items) # {}
  THEN Get(FirstTextBlock(content.items), TextKey).s
  ELSE <<>>

\* the first user message among the entries starts with a prefix of ai-lint's
\* prompts
FirstUserMessageOwn(entries) ==
  \E n \in 1..Len(entries) :
    /\ Get(entries[n], TypeKey) = JStr(User)
    /\ \A k \in 1..(n - 1) : Get(entries[k], TypeKey) # JStr(User)
    /\ \E prefix \in AI_LINT_PROMPT_PREFIXES :
         StartsAt(TextOfContent(Get(Get(entries[n], MessageKey), ContentKey)), 1, prefix)
OwnSession(lines) == FirstUserMessageOwn(EntriesIn(lines))

\* C27: ai-lint's own sessions are never offered for checking.  Every prompt
\* built by run_check or extract_insights begins with one of the prefixes in
\* _AI_LINT_PROMPT_PREFIXES, and discover_sessions never returns a session
\* file whose first user message (a plain string, or the first text block of a
\* block list) starts with such a prefix, nor a file under a subagents
\* directory.
OwnSessionsFiltered ==
  /\ \A f \in {"run_check", "extract_insights"}, pol \in Policies, tr \in Transcripts :
       \E prefix \in AI_LINT_PROMPT_PREFIXES : StartsAt(BuildPrompt(f, pol, tr), 1, prefix)
  /\ spc = "done" =>
       \A n \in 1..Len(discovered) :
         /\ ~OwnSession(discovered[n].lines)
         /\ \A k \in 1..Len(discovered[n].parts) : discovered[n].parts[k] # "subagents"

\* the session of an insight call, newer than a user session: the user
\* session alone is returned
OwnSessionsFilteredWitness ==
  /\ spc = "done"
  /\ projects = <<[parts |-> <<"p", "s.jsonl">>,
                   lines |-> <<LineOf(User, JArr(<<TextContent(InsightPrompt)>>))>>],
                  [parts |-> <<"p", "s.jsonl">>,
                   lines |-> <<LineOf(User, JStr(<<"h", "i">>))>>]>>
  /\ discovered = <<projects[2]>>


(***************************************************************************)
(* cli.py, check: the exits before the analysis                            *)
(***************************************************************************)
\* C28: no external call without something to check.  check makes no call of
\* run_check or extract_insights when the policy file is missing (exit status
\* 1), when no session is discovered (exit status 1), or when the selected
\* session parses to zero messages (exit status 0).
NoCallWithoutWork ==
  /\ (cpc = "exited" /\ ~has_policy) => (calls = <<>> /\ exit_status = 1)
  /\ (cpc = "exited" /\ has_policy /\ sessions = <<>>) =>
       (calls = <<>> /\ exit_status = 1)
  /\ (cpc = "exited" /\ selected # NoSession /\ selected.messages = 0) =>
       (calls = <<>> /\ exit_status = 0)
  /\ (~has_policy \/ sessions = <<>> \/ (selected # NoSession /\ selected.messages = 0)) =>
       (calls = <<>> /\ \A w \in {"verdict", "insight"} : futures[w] = NoFuture)

\* the second session of the list, picked at the prompt, has no messages: the
\* command has ended with status 0 and without a call
NoCallWithoutWorkWitness ==
  /\ cpc = "exited"
  /\ exit_status = 0
  /\ has_policy
  /\ ~last
  /\ sessions = <<SessionA, SessionB>>
  /\ selected = SessionB
  /\ calls = <<>>
  /\ \E n \in 1..Len(echoed) : echoed[n] = Out("no_messages", <<>>)


(***************************************************************************)
(* _validate_insights as a projection                                      *)
(***************************************************************************)
\* the keys of a dict
KeysOf(d) == {d.kv[n][1] : n \in 1..Len(d.kv)}

\* a == b for two dicts: the same keys with the same values, in any order
SameDict(a, b) ==
  /\ KeysOf(a) = KeysOf(b)
  /\ \A k \in KeysOf(a) : GetKey(a, k) = GetKey(b, k)

\* a list of items that are dicts with both keys
ItemList(v, k1, k2) ==
  /\ v.t = "arr"
  /\ \A n \in 1..Len(v.items) : ValidItem(v.items[n], k1, k2)

\* a well-formed InsightReport: exactly the three keys, each a list of items
\* with the required keys
WellFormedReport(v) ==
  /\ IsDict(v)
  /\ Len(v.kv) = 3
  /\ KeysOf(v) = {WhatWentWell, WhatToImprove, Notable}
  /\ ItemList(GetKey(v, WhatWentWell), PatternKey, EvidenceKey)
  /\ ItemList(GetKey(v, WhatToImprove), PatternKey, EvidenceKey)
  /\ ItemList(GetKey(v, Notable), ObservationKey, EvidenceKey)

\* C29: insight validation is a projection.  For every well-formed
\* InsightReport R, _validate_insights(R) equals R, and for every decoded
\* value v for which _validate_insights(v) returns, validating the result
\* again returns the same result.
ValidationProjection ==
  Validated =>
    /\ WellFormedReport(decoded) => SameDict(retval, decoded)
    /\ ValidateInsights(retval).ok
    /\ ValidateInsights(retval).val = retval

\* a well-formed report whose keys come in another order than those of the
\* result, with two items in a slot: the result equals it as a dict
ValidationProjectionWitness ==
  /\ Validated
  /\ WellFormedReport(decoded)
  /\ decoded # retval
  /\ SameDict(retval, decoded)
  /\ \E k \in KeysOf(decoded) : Len(GetKey(decoded, k).items) = 2


(***************************************************************************)
(* config.py: install_policy; with setup_hook.py, the operations that fail *)
(***************************************************************************)
\* PERSONAS: the template file of each persona
PERSONAS ==
  [self |-> "policy_self.md", team |-> "policy_team.md", parent |-> "policy_parent.md"]

\* the text of a template file, which nothing modelled looks into: the name
\* of the file stands for it
TemplateText(name) == <<name>>

\* the personas install_policy is called with: the three known ones, and two
\* that are unknown
PersonaArgs == {"self", "team", "parent", "hacker", ""}

\* install_policy creating the directory before it tests the persona
InstallPolicyOutcome_DirFirst(persona, dir, file) ==
  IF persona \notin DOMAIN PERSONAS
  THEN [raised |-> "ValueError", dir |-> TRUE, file |-> file]
  ELSE [raised |-> "none", dir |-> TRUE, file |-> File(TemplateText(PERSONAS[persona]))]

\* install_policy(persona) with the directory there or not and the policy
\* file as it is: the exception raised, and the directory and the file after
\* the call.  ensure_config_dir() creates the directory, shutil.copy2 writes
\* the template over the policy file
InstallPolicyOutcome(persona, dir, file) ==
  IF persona \notin DOMAIN PERSONAS
  THEN [raised |-> "ValueError", dir |-> dir, file |-> file]
  ELSE [raised |-> "none", dir |-> TRUE, file |-> File(TemplateText(PERSONAS[persona]))]

\* the settings files of this specification: none, an empty object, a hook of
\* another tool, the ai-lint hook, both in one entry
SomeSettings ==
  {JObj(<<>>),
   JObj(<< <<HooksKey, JObj(<< <<SessionEndKey,
             JArr(<<HookEntryOf(<<CommandHook(EchoDone)>>)>>)>> >>)>> >>),
   JObj(<< <<HooksKey, JObj(<< <<SessionEndKey, JArr(<<HOOK_ENTRY>>)>> >>)>> >>),
   JObj(<< <<HooksKey, JObj(<< <<SessionEndKey,
             JArr(<<HookEntryOf(<<CommandHook(EchoDone),
                                  CommandHook(HOOK_COMMAND)>>)>>)>> >>)>> >>)}

\* the settings file and the configuration directory before any call: the
\* policy file, when there is one, holds a template and lies in the directory
InitFiles ==
  /\ IdleCall
  /\ IdleFormat
  /\ IdleCli
  /\ IdlePool
  /\ IdleParse
  /\ spc = "idle"
  /\ projects = <<>>
  /\ discovered = <<>>
  /\ settings \in {Missing} \cup {File(Dumps(v, "default")) : v \in SomeSettings}
  /\ hook_op = "none"
  /\ hook_said = <<>>
  /\ config_dir \in BOOLEAN
  /\ policy_file \in {Missing} \cup {File(TemplateText(PERSONAS[pe])) : pe \in DOMAIN PERSONAS}
  /\ policy_file.exists => config_dir
  /\ config_op = "none"
  /\ config_raised = "none"

\* the call ends with the outcome
PolicyInstalled(o) ==
  /\ config_raised' = o.raised
  /\ config_dir' = o.dir
  /\ policy_file' = o.file

\* install_policy(persona)
InstallPolicy(persona) ==
  /\ config_op' = persona
  /\ PolicyInstalled(InstallPolicyOutcome(persona, config_dir, policy_file))
  /\ UNCHANGED <<callVars, formatVars, cliVars, hookVars, sessVars, poolVars>>

NextFiles ==
  \/ InstallHook
  \/ UninstallHook
  \/ \E persona \in PersonaArgs : InstallPolicy(persona)

SpecFiles == InitFiles /\ [][NextFiles]_vars

\* C30: failed operations leave state unchanged.  uninstall_hook called when
\* no ai-lint hook is installed does not write the settings file, and
\* install_policy with an unknown persona raises ValueError without creating
\* the configuration directory or changing an existing policy file.
FailedOperationsKeepState ==
  [][/\ (UninstallHook /\ ~IsHookInstalled(settings)) =>
          (settings' = settings /\ hook_said' = <<"ai-lint hook is not installed.">>)
     /\ \A persona \in PersonaArgs \ DOMAIN PERSONAS :
          InstallPolicy(persona) =>
            /\ config_raised' = "ValueError"
            /\ config_dir' = config_dir
            /\ policy_file' = policy_file]_vars

\* uninstall_hook has found no ai-lint hook in a settings file that holds the
\* hook of another tool and the file is as it was written, on one line;
\* install_policy("hacker") has raised ValueError and there is no directory
FailedOperationsKeepStateWitness ==
  /\ hook_op = "uninstall"
  /\ hook_said = <<"ai-lint hook is not installed.">>
  /\ settings = File(Dumps(JObj(<< <<HooksKey, JObj(<< <<SessionEndKey,
                       JArr(<<HookEntryOf(<<CommandHook(EchoDone)>>)>>)>> >>)>> >>),
                     "default"))
  /\ config_op = "hacker"
  /\ config_raised = "ValueError"
  /\ ~config_dir
  /\ policy_file = Missing

====
